---- MODULE Spec2Model ----
(***************************************************************************)
(* Synthetic gamma-spectrum corpus generation (vega_ml/synthetic_spectra): *)
(* the isotope registry, the compact binary label codec, the per-sample    *)
(* generator and the v4 parallel corpus builder.                           *)
(*                                                                         *)
(* Activities are integers in centi-becquerel (1 Bq = 100), so that the    *)
(* uint16 scaling by 65.535 is exact 32-bit integer arithmetic:            *)
(*     activity_bq * 65.535  =  activity_cBq * 13107 / 20000.              *)
(***************************************************************************)
EXTENDS Integers, Sequences, FiniteSets, TLC

(***************************************************************************)
(* Isotope registry (ground_truth/isotope_data.py).  Each entry keeps the  *)
(* name, the number of gamma lines and the daughters list, in the order    *)
(* the isotopes are added to the database.                                 *)
(***************************************************************************)
ISOTOPE_DATABASE ==
  << [name |-> "K-40", gamma |-> 1, daughters |-> <<>>],
     [name |-> "Be-7", gamma |-> 1, daughters |-> <<>>],
     [name |-> "C-14", gamma |-> 0, daughters |-> <<>>],
     [name |-> "Na-22", gamma |-> 2, daughters |-> <<>>],
     [name |-> "U-238", gamma |-> 1, daughters |-> <<"Th-234">>],
     [name |-> "Th-234", gamma |-> 3, daughters |-> <<"Pa-234m">>],
     [name |-> "Pa-234m", gamma |-> 2, daughters |-> <<"U-234">>],
     [name |-> "U-234", gamma |-> 1, daughters |-> <<"Th-230">>],
     [name |-> "Th-230", gamma |-> 2, daughters |-> <<"Ra-226">>],
     [name |-> "Ra-226", gamma |-> 1, daughters |-> <<"Rn-222">>],
     [name |-> "Rn-222", gamma |-> 1, daughters |-> <<"Po-218">>],
     [name |-> "Po-218", gamma |-> 0, daughters |-> <<"Pb-214">>],
     [name |-> "Pb-214", gamma |-> 3, daughters |-> <<"Bi-214">>],
     [name |-> "Bi-214", gamma |-> 7, daughters |-> <<"Po-214">>],
     [name |-> "Po-214", gamma |-> 1, daughters |-> <<"Pb-210">>],
     [name |-> "Pb-210", gamma |-> 1, daughters |-> <<"Bi-210">>],
     [name |-> "Bi-210", gamma |-> 0, daughters |-> <<"Po-210">>],
     [name |-> "Po-210", gamma |-> 1, daughters |-> <<"Pb-206">>],
     [name |-> "Th-232", gamma |-> 1, daughters |-> <<"Ra-228">>],
     [name |-> "Ra-228", gamma |-> 0, daughters |-> <<"Ac-228">>],
     [name |-> "Ac-228", gamma |-> 7, daughters |-> <<"Th-228">>],
     [name |-> "Th-228", gamma |-> 2, daughters |-> <<"Ra-224">>],
     [name |-> "Ra-224", gamma |-> 1, daughters |-> <<"Rn-220">>],
     [name |-> "Rn-220", gamma |-> 1, daughters |-> <<"Po-216">>],
     [name |-> "Po-216", gamma |-> 0, daughters |-> <<"Pb-212">>],
     [name |-> "Pb-212", gamma |-> 2, daughters |-> <<"Bi-212">>],
     [name |-> "Bi-212", gamma |-> 3, daughters |-> <<"Tl-208", "Po-212">>],
     [name |-> "Tl-208", gamma |-> 5, daughters |-> <<"Pb-208">>],
     [name |-> "Po-212", gamma |-> 0, daughters |-> <<"Pb-208">>],
     [name |-> "U-235", gamma |-> 4, daughters |-> <<"Th-231">>],
     [name |-> "Th-231", gamma |-> 2, daughters |-> <<"Pa-231">>],
     [name |-> "Pa-231", gamma |-> 4, daughters |-> <<"Ac-227">>],
     [name |-> "Ac-227", gamma |-> 0, daughters |-> <<"Th-227", "Fr-223">>],
     [name |-> "Pb-211", gamma |-> 3, daughters |-> <<>>],
     [name |-> "Bi-211", gamma |-> 1, daughters |-> <<>>],
     [name |-> "Tl-207", gamma |-> 1, daughters |-> <<>>],
     [name |-> "Am-241", gamma |-> 2, daughters |-> <<>>],
     [name |-> "Cs-137", gamma |-> 1, daughters |-> <<"Ba-137m">>],
     [name |-> "Ba-137m", gamma |-> 1, daughters |-> <<>>],
     [name |-> "Co-60", gamma |-> 2, daughters |-> <<>>],
     [name |-> "Ba-133", gamma |-> 7, daughters |-> <<>>],
     [name |-> "Cd-109", gamma |-> 1, daughters |-> <<>>],
     [name |-> "Eu-152", gamma |-> 11, daughters |-> <<>>],
     [name |-> "Eu-154", gamma |-> 9, daughters |-> <<>>],
     [name |-> "Mn-54", gamma |-> 1, daughters |-> <<>>],
     [name |-> "Zn-65", gamma |-> 2, daughters |-> <<>>],
     [name |-> "Co-57", gamma |-> 3, daughters |-> <<>>],
     [name |-> "Sr-85", gamma |-> 1, daughters |-> <<>>],
     [name |-> "Y-88", gamma |-> 2, daughters |-> <<>>],
     [name |-> "Ce-139", gamma |-> 1, daughters |-> <<>>],
     [name |-> "Sn-113", gamma |-> 1, daughters |-> <<>>],
     [name |-> "Hg-203", gamma |-> 1, daughters |-> <<>>],
     [name |-> "Se-75", gamma |-> 5, daughters |-> <<>>],
     [name |-> "Ir-192", gamma |-> 6, daughters |-> <<>>],
     [name |-> "Tc-99m", gamma |-> 1, daughters |-> <<>>],
     [name |-> "I-131", gamma |-> 5, daughters |-> <<>>],
     [name |-> "I-123", gamma |-> 2, daughters |-> <<>>],
     [name |-> "F-18", gamma |-> 1, daughters |-> <<>>],
     [name |-> "Ga-67", gamma |-> 4, daughters |-> <<>>],
     [name |-> "In-111", gamma |-> 2, daughters |-> <<>>],
     [name |-> "Tl-201", gamma |-> 5, daughters |-> <<>>],
     [name |-> "Lu-177", gamma |-> 2, daughters |-> <<>>],
     [name |-> "Sm-153", gamma |-> 2, daughters |-> <<>>],
     [name |-> "Xe-133", gamma |-> 1, daughters |-> <<>>],
     [name |-> "Ra-223", gamma |-> 4, daughters |-> <<>>],
     [name |-> "Cs-134", gamma |-> 8, daughters |-> <<>>],
     [name |-> "Ru-106", gamma |-> 0, daughters |-> <<"Rh-106">>],
     [name |-> "Rh-106", gamma |-> 3, daughters |-> <<>>],
     [name |-> "Ce-144", gamma |-> 2, daughters |-> <<"Pr-144">>],
     [name |-> "Pr-144", gamma |-> 3, daughters |-> <<>>],
     [name |-> "Sb-125", gamma |-> 8, daughters |-> <<>>],
     [name |-> "Co-58", gamma |-> 2, daughters |-> <<>>],
     [name |-> "Sr-90", gamma |-> 0, daughters |-> <<"Y-90">>],
     [name |-> "Y-90", gamma |-> 0, daughters |-> <<>>],
     [name |-> "I-129", gamma |-> 1, daughters |-> <<>>],
     [name |-> "Fe-59", gamma |-> 4, daughters |-> <<>>],
     [name |-> "Cr-51", gamma |-> 1, daughters |-> <<>>],
     [name |-> "Ta-182", gamma |-> 9, daughters |-> <<>>],
     [name |-> "Sc-46", gamma |-> 2, daughters |-> <<>>],
     [name |-> "Au-198", gamma |-> 2, daughters |-> <<>>],
     [name |-> "Ag-110m", gamma |-> 14, daughters |-> <<>>],
     [name |-> "Hf-181", gamma |-> 4, daughters |-> <<>>] >>

VARIABLES
  codec,      \* pack_labels / unpack_labels: the label, its bytes, the decoded dict
  gen,        \* one SpectrumGenerator.generate_spectrum call: config, process, result
  batch,      \* parent process of generate_training_data_v4
  tasks,      \* per sample index: what generate_single_sample_v4(i) returned
  workers,    \* per pool worker process: its chunk, its step, its process-global state
  files,      \* the shared output directory: path -> content and who wrote it
  calc        \* one call of a detector, physics or decay-chain function: arguments, result

vars == <<codec, gen, batch, tasks, workers, files, calc>>

(***************************************************************************)
(* Bounds of the model.                                                    *)
(***************************************************************************)
MaxLen == 2          \* longest enumerated short isotope or source list
MaxLongLen == 257    \* longest generated isotope list (beyond the count cap)
MaxSamples == 101    \* largest num_samples of a batch (one more than a chunk)
MaxWorkers == 2      \* largest num_workers of a batch
MaxIndex == 4        \* largest sample index of a repeated call
MaxQuarter == 8      \* calibration energies: quarter channel widths from each end of the range
MaxLowKev == 30      \* efficiency energies: every half keV from 0 up to this many keV
MaxDetected == 4     \* largest detected set given to infer_parent_from_daughters
MaxPos == 3          \* most draws a generator has given before generate_fallout is called

(***************************************************************************)
(* Small helpers.                                                          *)
(***************************************************************************)
Min(a, b) == IF a < b THEN a ELSE b
Max(a, b) == IF a > b THEN a ELSE b
Range(s) == {s[k] : k \in DOMAIN s}
\* Python dict.get(key, default)
DictGet(d, key, default) == IF key \in DOMAIN d THEN d[key] ELSE default
\* no detector, physics or decay-chain function has been called
CalcIdle == [pc |-> "idle"]

(***************************************************************************)
(* Registry lookups (isotope_data.py, helper functions).                   *)
(***************************************************************************)
DatabaseNames == {ISOTOPE_DATABASE[k].name : k \in DOMAIN ISOTOPE_DATABASE}
\* Python None for an Optional[Isotope]
NoIsotope == [name |-> "", gamma |-> 0, daughters |-> <<>>]
DatabaseKey == [n \in DatabaseNames |->
                  CHOOSE k \in DOMAIN ISOTOPE_DATABASE : ISOTOPE_DATABASE[k].name = n]
\* ISOTOPE_DATABASE.get(name)
get_isotope(name) ==
  IF name \in DatabaseNames THEN ISOTOPE_DATABASE[DatabaseKey[name]] ELSE NoIsotope
get_all_isotopes == ISOTOPE_DATABASE

(***************************************************************************)
(* Master isotope list of the binary label format (generate_spectra_v4.py) *)
(***************************************************************************)
IsGammaEmitter(iso) == iso.gamma > 0
_all_isotopes == SelectSeq(get_all_isotopes, IsGammaEmitter)
ISOTOPE_INDEX ==
  [n \in {_all_isotopes[k].name : k \in DOMAIN _all_isotopes} |->
     (CHOOSE k \in DOMAIN _all_isotopes : _all_isotopes[k].name = n) - 1]
INDEX_TO_ISOTOPE == [i \in 0..(Len(_all_isotopes) - 1) |-> _all_isotopes[i + 1].name]
NUM_ISOTOPES == Cardinality(DOMAIN ISOTOPE_INDEX)

(***************************************************************************)
(* Compact binary label format: pack_labels / unpack_labels.               *)
(***************************************************************************)
MaxCount == 255              \* count byte and slice cap
MaxActivity == 100000        \* 1000.0 Bq, in cBq
MaxScaled == 65535           \* uint16 full scale
ScaleNum == 13107            \* 65.535 per Bq  =  ScaleNum / ScaleDen per cBq
ScaleDen == 20000

\* Python int(): truncation toward zero of the quotient n / d (d > 0)
IntTrunc(n, d) == IF n >= 0 THEN n \div d ELSE -((-n) \div d)

\* round-to-nearest of n / d, n >= 0 (the quantizer the code does NOT use)
RoundNearest(n, d) == (n + d \div 2) \div d

ScaleActivity_round(activity) ==
  Max(0, Min(MaxScaled, RoundNearest(Max(0, Min(activity, MaxActivity)) * ScaleNum, ScaleDen)))

\* scaled = int(min(activity, 1000.0) * 65.535); scaled = max(0, min(65535, scaled))
ScaleActivity(activity) ==
  Max(0, Min(MaxScaled, IntTrunc(Min(activity, MaxActivity) * ScaleNum, ScaleDen)))

\* struct.pack('<H', scaled): low byte first
PackH(scaled) == <<scaled % 256, scaled \div 256>>
\* struct.unpack('<H', two bytes)[0]
UnpackH(lo, hi) == lo + 256 * hi

FlagBit(flags, key, bit) == IF DictGet(flags, key, TRUE) THEN bit ELSE 0

\* radon and thorium bits exchanged
FlagByte_swapped(flags) ==
  FlagBit(flags, "normalized", 1) + FlagBit(flags, "include_k40", 2)
    + FlagBit(flags, "include_radon", 8) + FlagBit(flags, "include_thorium", 4)

FlagByte(flags) ==
  FlagBit(flags, "normalized", 1) + FlagBit(flags, "include_k40", 2)
    + FlagBit(flags, "include_radon", 4) + FlagBit(flags, "include_thorium", 8)

pack_labels(isotopes, activities, flags) ==
  LET num_iso == Len(isotopes)
      head == SubSeq(isotopes, 1, Min(num_iso, MaxCount))
      idxBytes == [k \in 1..Len(head) |-> DictGet(ISOTOPE_INDEX, head[k], 0)]
      scaled(k) == ScaleActivity(DictGet(activities, head[k], 0))
      actBytes == [j \in 1..(2 * Len(head)) |-> PackH(scaled((j + 1) \div 2))[2 - (j % 2)]]
  IN  <<Min(num_iso, MaxCount)>> \o idxBytes \o actBytes \o <<FlagByte(flags)>>

\* scaled / 65.535, kept as the exact fraction num / den of a centi-becquerel
Unscale(scaled) == [num |-> scaled * ScaleDen, den |-> ScaleNum]

\* INDEX_TO_ISOTOPE.get(idx, f"Unknown-{idx}")
IndexName(idx) == DictGet(INDEX_TO_ISOTOPE, idx, "Unknown-" \o ToString(idx))

TestBit(byte, bit) == (byte \div bit) % 2 = 1

unpack_labels(data) ==
  LET num_iso == data[1]
      isotopes == [k \in 1..num_iso |-> IndexName(data[1 + k])]
      scaledAt(k) == UnpackH(data[1 + num_iso + 2 * k - 1], data[1 + num_iso + 2 * k])
      \* activities[iso] is assigned in list order: the last occurrence wins
      lastPos(n) == CHOOSE k \in 1..num_iso :
                      /\ isotopes[k] = n
                      /\ \A j \in (k + 1)..num_iso : isotopes[j] # n
      flags == data[1 + 3 * num_iso + 1]
  IN  [isotopes        |-> isotopes,
       activities      |-> [n \in Range(isotopes) |-> Unscale(scaledAt(lastPos(n)))],
       normalized      |-> TestBit(flags, 1),
       include_k40     |-> TestBit(flags, 2),
       include_radon   |-> TestBit(flags, 4),
       include_thorium |-> TestBit(flags, 8)]

\* before anything is decoded; and the codec while another specification runs
NoDecoded == [isotopes |-> <<>>, activities |-> <<>>, normalized |-> FALSE,
              include_k40 |-> FALSE, include_radon |-> FALSE, include_thorium |-> FALSE]

CodecIdle == [pc |-> "idle", isotopes |-> <<>>, activities |-> <<>>, flags |-> <<>>,
              packed |-> <<>>, decoded |-> NoDecoded]

(***************************************************************************)
(* Detector presets (config.py).  Energies in keV, fwhm_at_662 in 1/1000,  *)
(* detector_volume_cm3 in 1/10 cm3.                                        *)
(***************************************************************************)
DetectorConfig(name, emin, fwhm, volume) ==
  [name |-> name, energy_min_kev |-> emin, energy_max_kev |-> 3000,
   num_channels |-> 1024, skip_first_channel |-> TRUE,
   fwhm_at_662 |-> fwhm, detector_volume_cm3 |-> volume]

RADIACODE_CONFIGS ==
  [k \in {"radiacode_101", "radiacode_102", "radiacode_103", "radiacode_103g",
          "radiacode_110"} |->
     CASE k = "radiacode_101"  -> DetectorConfig("Radiacode 101", 20, 95, 10)
       [] k = "radiacode_102"  -> DetectorConfig("Radiacode 102", 20, 95, 10)
       [] k = "radiacode_103"  -> DetectorConfig("Radiacode 103", 20, 84, 10)
       [] k = "radiacode_103g" -> DetectorConfig("Radiacode 103G", 25, 74, 10)
       [] k = "radiacode_110"  -> DetectorConfig("Radiacode 110", 20, 84, 25)]

get_default_config == RADIACODE_CONFIGS["radiacode_103"]

\* len(get_energy_bins()): the usable channels
NumUsableChannels(detector_config) ==
  detector_config.num_channels - (IF detector_config.skip_first_channel THEN 1 ELSE 0)

(***************************************************************************)
(* Random generators.  A generator is a stream of unit draws, each kept as *)
(* an integer percentage 0..99; the k-th draw of a stream is a fixed       *)
(* function of what the stream was seeded with.                            *)
(*   Rand(seed, k)         np.random.default_rng(seed), local to one call  *)
(*   GlobalRand(e, pos)    the process-global np.random state, seeded from *)
(*                          OS entropy e when the process imports numpy    *)
(***************************************************************************)
Rand(seed, k) == ((seed + 7) * (53 * k + 29) + k * k) % 100
GlobalRand(entropy, pos) == ((entropy + 3) * (37 * pos + 11) + pos) % 100

\* rng.uniform(lo, hi) from the unit draw u
Uniform(u, lo, hi) == lo + ((hi - lo) * u) \div 100
\* rng.choice(list) from the unit draw u
Choice(list, u) == list[((u * Len(list)) \div 100) + 1]
\* rng.integers(lo, hi): lo <= result < hi
Integers(u, lo, hi) == lo + ((hi - lo) * u) \div 100
\* rng.choice(list, size, replace=False): size distinct elements
ChoiceNoReplace(list, size, u) ==
  [j \in 1..size |-> list[((((u * Len(list)) \div 100) + j - 1) % Len(list)) + 1]]

(***************************************************************************)
(* Iteration order of a Python set of strings.  It is fixed by the string  *)
(* hash seed of the process, so it is a function of the process entropy.   *)
(***************************************************************************)
\* the registry names in registry order
DatabaseOrder == [k \in DOMAIN ISOTOPE_DATABASE |-> ISOTOPE_DATABASE[k].name]
\* the names of S that are in the registry, in registry order
SortedSeq(S) == LET InS(n) == n \in S IN SelectSeq(DatabaseOrder, InS)
Rotate(seq, e) ==
  [k \in 1..Len(seq) |-> seq[((k - 1 + e) % Len(seq)) + 1]]
\* list(set(...)) in a process whose hash seed came from entropy e
ListOfSet(S, e) == IF S = {} THEN <<>> ELSE Rotate(SortedSeq(S), e)

(***************************************************************************)
(* Isotope pools and scenario generators (generate_spectra_v4.py).         *)
(***************************************************************************)
CALIBRATION_ISOTOPES ==
  <<"Cs-137", "Co-60", "Am-241", "Ba-133", "Eu-152", "Na-22", "Co-57", "Mn-54">>
MEDICAL_ISOTOPES ==
  <<"Tc-99m", "I-131", "I-123", "F-18", "Ga-67", "Ga-68", "In-111", "Lu-177", "Tl-201">>
INDUSTRIAL_ISOTOPES == <<"Ir-192", "Se-75", "Zn-65", "Co-58", "Cd-109">>
URANIUM_238_CHAIN == <<"U-238", "Ra-226", "Pb-214", "Bi-214">>
THORIUM_232_CHAIN == <<"Th-232", "Ac-228", "Pb-212", "Bi-212", "Tl-208">>
CHERNOBYL_FUKUSHIMA == <<"Cs-137", "Cs-134">>
FRESH_FALLOUT == <<"I-131", "Cs-137", "Cs-134", "Zr-95", "Nb-95">>
NORM_MATERIALS == <<"K-40", "Ra-226", "Th-232", "U-238">>

InIndex(name) == name \in DOMAIN ISOTOPE_INDEX
get_valid_isotopes(isotope_list) == SelectSeq(isotope_list, InIndex)

VALID_CALIBRATION == get_valid_isotopes(CALIBRATION_ISOTOPES)
VALID_MEDICAL == get_valid_isotopes(MEDICAL_ISOTOPES)
VALID_INDUSTRIAL == get_valid_isotopes(INDUSTRIAL_ISOTOPES)
VALID_U238_CHAIN == get_valid_isotopes(URANIUM_238_CHAIN)
VALID_TH232_CHAIN == get_valid_isotopes(THORIUM_232_CHAIN)
VALID_FALLOUT == get_valid_isotopes(CHERNOBYL_FUKUSHIMA \o FRESH_FALLOUT)
VALID_NORM == get_valid_isotopes(NORM_MATERIALS)

AllValidSet ==
  Range(VALID_CALIBRATION) \cup Range(VALID_MEDICAL) \cup Range(VALID_INDUSTRIAL)
    \cup Range(VALID_U238_CHAIN) \cup Range(VALID_TH232_CHAIN)
    \cup Range(VALID_FALLOUT) \cup Range(VALID_NORM)
AllValidSorted == SortedSeq(AllValidSet)
\* ALL_VALID_ISOTOPES = list(set(...)), built when the process imports the module
ALL_VALID_ISOTOPES(e) == Rotate(AllValidSorted, e)

IsotopeSource(isotope_name, activity_bq, include_daughters) ==
  [isotope_name |-> isotope_name, activity_bq |-> activity_bq,
   include_daughters |-> include_daughters, activity_variation |-> 0]

\* Every generator takes the seed of the sample's rng and the number k of
\* draws already taken from it, and returns the sources and the new count.
generate_background_sources(seed, k) == [sources |-> <<>>, k |-> k]

SingleSource(pool, seed, k, range) ==
  IF Len(pool) = 0 THEN [sources |-> <<>>, k |-> k]
  ELSE [sources |-> <<IsotopeSource(Choice(pool, Rand(seed, k)),
                                     Uniform(Rand(seed, k + 1), range[1], range[2]),
                                     TRUE)>>,
        k |-> k + 2]

generate_single_calibration(seed, k, range) == SingleSource(VALID_CALIBRATION, seed, k, range)
generate_single_medical(seed, k, range) == SingleSource(VALID_MEDICAL, seed, k, range)
generate_single_industrial(seed, k, range) == SingleSource(VALID_INDUSTRIAL, seed, k, range)

\* one base activity, each member perturbed by uniform(0.8, 1.2)
ChainSources(chain, seed, k, range) ==
  LET base_activity == Uniform(Rand(seed, k), range[1], range[2])
  IN  [sources |-> [j \in 1..Len(chain) |->
                      IsotopeSource(chain[j],
                                    (base_activity * Uniform(Rand(seed, k + j), 800, 1200)) \div 1000,
                                    FALSE)],
       k |-> k + 1 + Len(chain)]

generate_uranium_chain(seed, k, range) == ChainSources(VALID_U238_CHAIN, seed, k, range)
generate_thorium_chain(seed, k, range) == ChainSources(VALID_TH232_CHAIN, seed, k, range)

\* one uniform activity for each selected isotope, daughters included
SourcesOf(selected, seed, k, range) ==
  [sources |-> [j \in 1..Len(selected) |->
                  IsotopeSource(selected[j],
                                Uniform(Rand(seed, k + j - 1), range[1], range[2]), TRUE)],
   k |-> k + Len(selected)]

generate_norm(seed, k, range) ==
  LET num_isotopes == Integers(Rand(seed, k), 2, 5)
      selected == ChoiceNoReplace(VALID_NORM, Min(num_isotopes, Len(VALID_NORM)),
                                  Rand(seed, k + 1))
  IN  SourcesOf(selected, seed, k + 2, range)

\* Cs-134 kept at the threshold activity as well
generate_fallout_inclusive(seed, k, range) ==
  LET cs137_activity == Uniform(Rand(seed, k), range[1], range[2])
      age_factor == Uniform(Rand(seed, k + 1), 100, 1000)     \* in 1/1000
      cs134_activity == (cs137_activity * age_factor) \div 1000
      cs137 == IF "Cs-137" \in Range(VALID_FALLOUT)
               THEN <<IsotopeSource("Cs-137", cs137_activity, TRUE)>> ELSE <<>>
      \* cs134_activity > 0.5, on the product before it is rounded to 1/100 Bq
      cs134 == IF "Cs-134" \in Range(VALID_FALLOUT) /\ cs137_activity * age_factor >= 50 * 1000
               THEN <<IsotopeSource("Cs-134", cs134_activity, TRUE)>> ELSE <<>>
      iodine == Rand(seed, k + 2) < 30 /\ "I-131" \in Range(VALID_FALLOUT)
  IN  IF iodine
      THEN [sources |-> cs137 \o cs134
                          \o <<IsotopeSource("I-131", Uniform(Rand(seed, k + 3), 100, 5000), TRUE)>>,
            k |-> k + 4]
      ELSE [sources |-> cs137 \o cs134, k |-> k + 3]

generate_fallout(seed, k, range) ==
  LET cs137_activity == Uniform(Rand(seed, k), range[1], range[2])
      age_factor == Uniform(Rand(seed, k + 1), 100, 1000)     \* in 1/1000
      cs134_activity == (cs137_activity * age_factor) \div 1000
      cs137 == IF "Cs-137" \in Range(VALID_FALLOUT)
               THEN <<IsotopeSource("Cs-137", cs137_activity, TRUE)>> ELSE <<>>
      \* cs134_activity > 0.5, on the product before it is rounded to 1/100 Bq
      cs134 == IF "Cs-134" \in Range(VALID_FALLOUT) /\ cs137_activity * age_factor > 50 * 1000
               THEN <<IsotopeSource("Cs-134", cs134_activity, TRUE)>> ELSE <<>>
      iodine == Rand(seed, k + 2) < 30 /\ "I-131" \in Range(VALID_FALLOUT)
  IN  IF iodine
      THEN [sources |-> cs137 \o cs134
                          \o <<IsotopeSource("I-131", Uniform(Rand(seed, k + 3), 100, 5000), TRUE)>>,
            k |-> k + 4]
      ELSE [sources |-> cs137 \o cs134, k |-> k + 3]

generate_mixed(seed, k, range, e) ==
  LET num_isotopes == Integers(Rand(seed, k), 2, 4)
      selected == ChoiceNoReplace(ALL_VALID_ISOTOPES(e), num_isotopes, Rand(seed, k + 1))
  IN  SourcesOf(selected, seed, k + 2, range)

ComplexPools ==
  <<VALID_CALIBRATION, VALID_MEDICAL, VALID_INDUSTRIAL, VALID_U238_CHAIN, VALID_TH232_CHAIN>>

\* for pool in pools: stop once num_isotopes are selected, else add one choice
RECURSIVE ComplexFromPools(_, _, _, _, _)
ComplexFromPools(p, selected, seed, k, num_isotopes) ==
  IF p > Len(ComplexPools) \/ Cardinality(selected) >= num_isotopes
  THEN [selected |-> selected, k |-> k]
  ELSE IF Len(ComplexPools[p]) = 0
       THEN ComplexFromPools(p + 1, selected, seed, k, num_isotopes)
       ELSE ComplexFromPools(p + 1, selected \cup {Choice(ComplexPools[p], Rand(seed, k))},
                             seed, k + 1, num_isotopes)

\* while len(selected) < num_isotopes: add a choice from ALL_VALID_ISOTOPES
RECURSIVE ComplexFill(_, _, _, _, _)
ComplexFill(selected, seed, k, num_isotopes, e) ==
  IF Cardinality(selected) >= num_isotopes
  THEN [selected |-> selected, k |-> k]
  ELSE ComplexFill(selected \cup {Choice(ALL_VALID_ISOTOPES(e), Rand(seed, k))},
                   seed, k + 1, num_isotopes, e)

generate_complex(seed, k, range, e) ==
  LET num_isotopes == Integers(Rand(seed, k), 4, 7)
      pooled == ComplexFromPools(1, {}, seed, k + 1, num_isotopes)
      filled == ComplexFill(pooled.selected, seed, pooled.k, num_isotopes, e)
  IN  SourcesOf(ListOfSet(filled.selected, e), seed, filled.k, range)

generate_weak(seed, k, range, e) ==
  [sources |-> <<IsotopeSource(Choice(ALL_VALID_ISOTOPES(e), Rand(seed, k)),
                               Uniform(Rand(seed, k + 1), 10, 500), TRUE)>>,
   k |-> k + 2]

\* (name, fraction in percent); the generator is selected by name below
SCENARIOS ==
  << <<"background", 15>>, <<"calibration", 20>>, <<"medical", 8>>, <<"industrial", 5>>,
     <<"uranium", 10>>, <<"thorium", 10>>, <<"norm", 7>>, <<"fallout", 5>>,
     <<"mixed", 10>>, <<"complex", 5>>, <<"weak", 5>> >>

RECURSIVE CumulativePercent(_)
CumulativePercent(j) == IF j = 0 THEN 0 ELSE CumulativePercent(j - 1) + SCENARIOS[j][2]
\* np.cumsum of the scenario weights, with a leading 0
scenario_probs == [j \in 0..Len(SCENARIOS) |-> CumulativePercent(j)]

\* rng.choice(len(SCENARIOS), p=scenario_probs): inverse of the cumulative table
ScenarioIndex(u) ==
  CHOOSE j \in 1..Len(SCENARIOS) :
    /\ u * scenario_probs[Len(SCENARIOS)] < 100 * scenario_probs[j]
    /\ u * scenario_probs[Len(SCENARIOS)] >= 100 * scenario_probs[j - 1]

generator_func(scenario_name, seed, k, range, e) ==
  CASE scenario_name = "background"  -> generate_background_sources(seed, k)
    [] scenario_name = "calibration" -> generate_single_calibration(seed, k, range)
    [] scenario_name = "medical"     -> generate_single_medical(seed, k, range)
    [] scenario_name = "industrial"  -> generate_single_industrial(seed, k, range)
    [] scenario_name = "uranium"     -> generate_uranium_chain(seed, k, range)
    [] scenario_name = "thorium"     -> generate_thorium_chain(seed, k, range)
    [] scenario_name = "norm"        -> generate_norm(seed, k, range)
    [] scenario_name = "fallout"     -> generate_fallout(seed, k, range)
    [] scenario_name = "mixed"       -> generate_mixed(seed, k, range, e)
    [] scenario_name = "complex"     -> generate_complex(seed, k, range, e)
    [] scenario_name = "weak"        -> generate_weak(seed, k, range, e)
(***************************************************************************)
(* Calibration of a DetectorConfig (config.py) and detector_efficiency     *)
(* (physics/spectrum_physics.py).                                          *)
(*                                                                         *)
(* An energy is an integer number of ticks of 1/2048 keV: the channel      *)
(* width (energy_max_kev - energy_min_kev) / num_channels of every preset  *)
(* and the centre of every channel are whole numbers of ticks, so the      *)
(* float arithmetic of the calibration is exact integer arithmetic here.   *)
(* A fraction (an efficiency, an exponential) is an integer number of      *)
(* 1/10000.                                                                *)
(***************************************************************************)
TicksPerKev == 2 * 1024
Fraction == 100 * 100

\* DetectorConfig.get_channel_width_kev, in ticks
get_channel_width_kev(self) ==
  ((self.energy_max_kev - self.energy_min_kev) * TicksPerKev) \div self.num_channels

\* DetectorConfig.energy_to_channel(energy_kev), the energy in ticks
energy_to_channel(self, energy) ==
  LET raw_channel == IntTrunc(energy - self.energy_min_kev * TicksPerKev,
                              get_channel_width_kev(self))
      channel == IF self.skip_first_channel THEN raw_channel - 1 ELSE raw_channel
      max_channel == IF self.skip_first_channel THEN self.num_channels - 2
                     ELSE self.num_channels - 1
  IN  Max(0, Min(max_channel, channel))

\* DetectorConfig.channel_to_energy(channel): the bin centre, in ticks
channel_to_energy(self, channel) ==
  LET raw_channel == Max(0, Min(self.num_channels - 1,
                                channel + (IF self.skip_first_channel THEN 1 ELSE 0)))
  IN  self.energy_min_kev * TicksPerKev
        + ((2 * raw_channel + 1) * get_channel_width_kev(self)) \div 2

\* the bin centres counted from raw channel 0 whatever skip_first_channel says
get_energy_bins_fromzero(self) ==
  [k \in 1..NumUsableChannels(self) |->
     self.energy_min_kev * TicksPerKev
       + ((2 * (k - 1) + 1) * get_channel_width_kev(self)) \div 2]

\* DetectorConfig.get_energy_bins(): the centres of the raw channels
\* np.arange(start_raw_channel, num_channels), in ticks
get_energy_bins(self) ==
  LET channel_width == get_channel_width_kev(self)
      start_raw_channel == IF self.skip_first_channel THEN 1 ELSE 0
  IN  [k \in 1..(IF self.num_channels > start_raw_channel
                 THEN self.num_channels - start_raw_channel ELSE 0) |->
         self.energy_min_kev * TicksPerKev
           + ((2 * (start_raw_channel + k - 1) + 1) * channel_width) \div 2]

\* np.exp(-t) for t >= 0, t and the result in 1/10000:
\*   exp(-t) = exp(-1)^(whole + 1) * exp(1 - frac),  t = whole + frac,
\* the last factor by its power series (eight terms)
ExpNeg(t) ==
  LET RECURSIVE ExpSeries(_, _, _)
      ExpSeries(g, term, k) ==
        IF k > 8 \/ term = 0 THEN 0
        ELSE term + ExpSeries(g, (term * g) \div (Fraction * k), k + 1)
      RECURSIVE PowInvE(_)
      PowInvE(k) == IF k = 0 THEN Fraction ELSE (PowInvE(k - 1) * 3679) \div Fraction
  IN  (PowInvE(Min(t \div Fraction + 1, 12))
         * ExpSeries(Fraction - (t % Fraction), Fraction, 1)) \div Fraction

\* detector_efficiency(energy_kev, detector_config): the energy in ticks, the
\* result in 1/10000; detector_volume_cm3 is in tenths of a cm3
detector_efficiency(energy, detector_config) ==
  LET low_eff == Fraction - ExpNeg((energy * 25) \div 256)        \* 1 - exp(-E / 50)
      high_eff == ExpNeg((energy * 5) \div TicksPerKev)           \* exp(-E / 2000)
      eff == (8 * ((low_eff * high_eff) \div Fraction)) \div 10   \* 0.8 * low * high
      \* (detector_volume_cm3 / 1.0) ** (1/3), in 1/100
      \* the cube root rounded down, by bisection: lo ^ 3 <= v < hi ^ 3
      volume_factor ==
        LET v == detector_config.detector_volume_cm3 * 100000
            RECURSIVE CubeRoot(_, _)
            CubeRoot(lo, hi) ==
              IF hi - lo <= 1 THEN lo
              ELSE LET mid == (lo + hi) \div 2
                   IN  IF mid * mid * mid <= v THEN CubeRoot(mid, hi)
                       ELSE CubeRoot(lo, mid)
        IN  CubeRoot(0, 512)
  IN  IF energy < 20 * TicksPerKev THEN 0
      ELSE Max(0, Min(Fraction, (eff * Min(100, volume_factor)) \div 100))
(***************************************************************************)
(* Decay chains and chain signatures (ground_truth/decay_chains.py).       *)
(* A chain is the list of its member names; a signature keeps its key,     *)
(* the parent it indicates and its two daughter sets, in the order the     *)
(* signatures are added to CHAIN_SIGNATURES.  A confidence is the exact    *)
(* fraction [num / den].                                                   *)
(***************************************************************************)
DECAY_CHAINS ==
  [p \in {"U-238", "Th-232", "U-235", "Cs-137"} |->
     CASE p = "U-238" ->
            <<"U-238", "Th-234", "Pa-234m", "U-234", "Th-230", "Ra-226", "Rn-222",
              "Po-218", "Pb-214", "Bi-214", "Po-214", "Pb-210", "Bi-210", "Po-210">>
       [] p = "Th-232" ->
            <<"Th-232", "Ra-228", "Ac-228", "Th-228", "Ra-224", "Rn-220", "Po-216",
              "Pb-212", "Bi-212", "Tl-208", "Po-212">>
       [] p = "U-235" ->
            <<"U-235", "Th-231", "Pa-231", "Ac-227", "Pb-211", "Bi-211", "Tl-207">>
       [] p = "Cs-137" -> <<"Cs-137", "Ba-137m">>]

CHAIN_SIGNATURES ==
  << [key |-> "Rn-222_progeny", inferred_parent |-> "Rn-222",
      required_daughters |-> {"Pb-214", "Bi-214"},
      optional_daughters |-> {"Po-214"}],
     [key |-> "Ra-226_equilibrium", inferred_parent |-> "Ra-226",
      required_daughters |-> {"Pb-214", "Bi-214"},
      optional_daughters |-> {"Rn-222", "Po-214", "Pb-210"}],
     [key |-> "Rn-220_progeny", inferred_parent |-> "Rn-220",
      required_daughters |-> {"Pb-212", "Bi-212"},
      optional_daughters |-> {"Tl-208", "Po-212"}],
     [key |-> "Th-232_equilibrium", inferred_parent |-> "Th-232",
      required_daughters |-> {"Ac-228", "Pb-212", "Tl-208"},
      optional_daughters |-> {"Bi-212", "Ra-224"}],
     [key |-> "U-235_direct", inferred_parent |-> "U-235",
      required_daughters |-> {"U-235"},
      optional_daughters |-> {"Th-231", "Pa-231"}] >>

\* the chain returned whole, whatever include_parent says
get_chain_daughters_whole(parent, include_parent) ==
  IF parent \notin DOMAIN DECAY_CHAINS
  THEN (IF include_parent THEN <<parent>> ELSE <<>>)
  ELSE DECAY_CHAINS[parent]

\* get_chain_daughters(parent, include_parent)
get_chain_daughters(parent, include_parent) ==
  LET daughters == DECAY_CHAINS[parent]
  IN  IF parent \notin DOMAIN DECAY_CHAINS
      THEN (IF include_parent THEN <<parent>> ELSE <<>>)
      ELSE IF ~include_parent /\ Len(daughters) > 0 /\ daughters[1] = parent
           THEN Tail(daughters)
           ELSE daughters

\* a < b for two confidences
ConfidenceLess(a, b) == a.num * b.den < b.num * a.den

\* a sort that moves an entry in front of the earlier entries of equal confidence
RECURSIVE SortByConfidence_unstable(_)
SortByConfidence_unstable(results) ==
  IF Len(results) <= 1 THEN results
  ELSE LET sorted == SortByConfidence_unstable(SubSeq(results, 1, Len(results) - 1))
           last == results[Len(results)]
           before == SelectSeq(sorted, LAMBDA r : ConfidenceLess(last.confidence, r.confidence))
           after == SelectSeq(sorted, LAMBDA r : ~ConfidenceLess(last.confidence, r.confidence))
       IN  before \o <<last>> \o after

\* results.sort(key=lambda x: x[2], reverse=True): a stable sort, so with
\* reverse=True entries of equal confidence keep the order they were appended in
RECURSIVE SortByConfidence(_)
SortByConfidence(results) ==
  IF Len(results) <= 1 THEN results
  ELSE LET sorted == SortByConfidence(SubSeq(results, 1, Len(results) - 1))
           last == results[Len(results)]
           before == SelectSeq(sorted, LAMBDA r : ~ConfidenceLess(r.confidence, last.confidence))
           after == SelectSeq(sorted, LAMBDA r : ConfidenceLess(r.confidence, last.confidence))
       IN  before \o <<last>> \o after

\* the loop body with the guard on the optional daughters as well
SignatureResult_anyfound(detected_isotopes, signature) ==
  LET required_found == detected_isotopes \cap signature.required_daughters
      optional_found == detected_isotopes \cap signature.optional_daughters
  IN  IF Cardinality(required_found) + Cardinality(optional_found) > 0
      THEN <<[parent |-> signature.inferred_parent, signature |-> signature.key,
              confidence |->
                [num |-> Cardinality(required_found),
                 den |-> Cardinality(signature.required_daughters)]]>>
      ELSE <<>>

\* the body of "for sig_name, signature in CHAIN_SIGNATURES.items()": the
\* entry appended for one signature, if any
SignatureResult(detected_isotopes, signature) ==
  LET required_found == detected_isotopes \cap signature.required_daughters
      optional_found == detected_isotopes \cap signature.optional_daughters
      r == Cardinality(signature.required_daughters)
      o == Cardinality(signature.optional_daughters)
      \* confidence + 0.1 * len(optional_found) / len(optional_daughters)
      boosted == [num |-> Cardinality(required_found) * 10 * o
                            + Cardinality(optional_found) * r,
                  den |-> r * 10 * o]
  IN  IF Cardinality(required_found) > 0
      THEN <<[parent |-> signature.inferred_parent, signature |-> signature.key,
              confidence |->
                IF o > 0
                THEN (IF boosted.num > boosted.den           \* min(1.0, ...)
                      THEN [num |-> boosted.den, den |-> boosted.den] ELSE boosted)
                ELSE [num |-> Cardinality(required_found), den |-> r]]>>
      ELSE <<>>

\* infer_parent_from_daughters(detected_isotopes)
infer_parent_from_daughters(detected_isotopes) ==
  LET RECURSIVE SignatureResults(_)
      SignatureResults(k) ==
        IF k > Len(CHAIN_SIGNATURES) THEN <<>>
        ELSE SignatureResult(detected_isotopes, CHAIN_SIGNATURES[k])
               \o SignatureResults(k + 1)
  IN  SortByConfidence(SignatureResults(1))

(***************************************************************************)
(* SpectrumGenerator (generator.py) and the physics it calls               *)
(* (physics/spectrum_physics.py).                                          *)
(*                                                                         *)
(* A spectrum row is kept as what was added to it: the background          *)
(* continuum and natural peaks, one peak entry per contributing isotope    *)
(* (activity used, number of gamma lines), and which draw of the           *)
(* process-global np.random stream sampled its noise.  The process-global  *)
(* stream is g = [entropy, pos]: what it was seeded with and how many      *)
(* draws the process has already taken from it.                            *)
(***************************************************************************)
SpectrumConfig(duration, interval, sources, include_background, background_cps, include_k40, include_radon, include_thorium, detector_name) ==
  [duration_seconds |-> duration, time_interval_seconds |-> interval,
   sources |-> sources, include_background |-> include_background,
   background_cps |-> background_cps, include_k40 |-> include_k40,
   include_radon |-> include_radon, include_thorium |-> include_thorium,
   detector_name |-> detector_name,
   apply_poisson |-> TRUE, apply_electronic |-> FALSE,
   normalize |-> TRUE, normalization_method |-> "max"]

BoolCount(b) == IF b THEN 1 ELSE 0

\* np.random.uniform draws taken by generate_environmental_background
BackgroundDraws(config) ==
  IF config.include_background
  THEN BoolCount(config.include_k40) + BoolCount(config.include_radon)
         + BoolCount(config.include_thorium)
  ELSE 0

\* generate_environmental_background: continuum counts (in 1/1000 count), the
\* activity drawn for each natural peak that is switched on (-1 when off),
\* and the isotopes switched on
generate_environmental_background(duration_seconds, background_cps, include_k40, include_radon, include_thorium, entropy, pos) ==
  LET radon_pos == pos + BoolCount(include_k40)
      thorium_pos == radon_pos + BoolCount(include_radon)
  IN  [continuum |-> background_cps * duration_seconds * 7,
       k40_activity |-> IF include_k40
                        THEN Uniform(GlobalRand(entropy, pos), 50, 500) ELSE -1,
       radon_activity |-> IF include_radon
                          THEN Uniform(GlobalRand(entropy, radon_pos), 10, 200) ELSE -1,
       thorium_activity |-> IF include_thorium
                            THEN Uniform(GlobalRand(entropy, thorium_pos), 5, 100) ELSE -1,
       isotopes |-> (IF include_k40 THEN <<"K-40">> ELSE <<>>)
                      \o (IF include_radon THEN <<"Pb-214", "Bi-214">> ELSE <<>>)
                      \o (IF include_thorium THEN <<"Ac-228", "Pb-212", "Tl-208">> ELSE <<>>)]

NoBackground ==
  [continuum |-> 0, k40_activity |-> -1, radon_activity |-> -1, thorium_activity |-> -1,
   isotopes |-> <<>>]

IsKnown(name) == get_isotope(name) # NoIsotope
Jitters(source) == IsKnown(source.isotope_name) /\ source.activity_variation > 0

\* number of sources before position j that take a jitter draw
JitterDrawsBefore(sources, j) == Cardinality({i \in 1..(j - 1) : Jitters(sources[i])})

\* peaks of the daughters of one source: every daughter found in the registry,
\* at the activity of the source
DaughterPeaks(isotope, activity) ==
  LET known == SelectSeq(isotope.daughters, IsKnown)
  IN  [d \in 1..Len(known) |->
         [isotope |-> known[d], activity |-> activity, lines |-> get_isotope(known[d]).gamma]]

\* an unknown source is given a peak entry as if it were registered
SourcePeaks_noskip(source, u) ==
  <<[isotope |-> source.isotope_name, activity |-> source.activity_bq, lines |-> 1]>>

\* the body of "for source in sources": what one source adds to the row,
\* u being the unit draw of its activity variation
SourcePeaks(source, u) ==
  LET Jittered(activity_bq) ==
        IF source.activity_variation > 0
        THEN (activity_bq * (100 + Uniform(u, -source.activity_variation,
                                           source.activity_variation))) \div 100
        ELSE activity_bq
      Peaks(isotope, activity) ==
        IF isotope = NoIsotope
        THEN <<>>
        ELSE <<[isotope |-> source.isotope_name, activity |-> activity,
                lines |-> isotope.gamma]>>
               \o (IF source.include_daughters /\ Len(isotope.daughters) > 0
                   THEN DaughterPeaks(isotope, activity) ELSE <<>>)
  IN  Peaks(get_isotope(source.isotope_name), Jittered(source.activity_bq))

RECURSIVE AllPeaks(_, _, _, _)
AllPeaks(sources, j, entropy, pos) ==
  IF j > Len(sources) THEN <<>>
  ELSE SourcePeaks(sources[j],
                   GlobalRand(entropy, pos + JitterDrawsBefore(sources, j)))
         \o AllPeaks(sources, j + 1, entropy, pos)

PeakIsotopes(peaks) == {peaks[k].isotope : k \in DOMAIN peaks}

\* generate_single_interval: the expected row, its source isotopes and its
\* background isotopes; g is the process-global stream when it is called
generate_single_interval(sources, interval_duration, include_background, background_config, g) ==
  LET bgDraws == IF include_background
                 THEN BoolCount(background_config.include_k40)
                        + BoolCount(background_config.include_radon)
                        + BoolCount(background_config.include_thorium)
                 ELSE 0
      Interval(bg, peaks) ==
        [spectrum |-> [background |-> [continuum |-> bg.continuum,
                                       k40_activity |-> bg.k40_activity,
                                       radon_activity |-> bg.radon_activity,
                                       thorium_activity |-> bg.thorium_activity],
                       peaks |-> peaks],
         source_isotopes |-> PeakIsotopes(peaks),
         background_isotopes |-> bg.isotopes,
         draws |-> bgDraws + JitterDrawsBefore(sources, Len(sources) + 1)]
  IN  Interval(IF include_background
               THEN generate_environmental_background(
                      interval_duration, background_config.background_cps,
                      background_config.include_k40, background_config.include_radon,
                      background_config.include_thorium, g.entropy, g.pos)
               ELSE NoBackground,
               AllPeaks(sources, 1, g.entropy, g.pos + bgDraws))

\* draws of the process-global stream taken for one row of generate_spectrum
DrawsPerRow(config) ==
  BackgroundDraws(config) + JitterDrawsBefore(config.sources, Len(config.sources) + 1)
    + BoolCount(config.apply_poisson) + BoolCount(config.apply_electronic)

\* the number of intervals without its minimum
NumIntervals_nomin(config) ==
  IntTrunc(config.duration_seconds, config.time_interval_seconds)

\* int(duration_seconds / time_interval_seconds), at least 1
NumIntervals(config) ==
  Max(1, IntTrunc(config.duration_seconds, config.time_interval_seconds))

NormalizationMethods == {"max", "sum", "log", "sqrt"}

\* row i (1-based) of the spectrogram of generate_spectrum(config) called when
\* the process-global stream is g: the expected row and the draws that noised it
SpectrumRow(config, g, i) ==
  LET start == g.pos + (i - 1) * DrawsPerRow(config)
      Noised(interval) ==
        [expected |-> interval.spectrum,
         source_isotopes |-> interval.source_isotopes,
         background_isotopes |-> interval.background_isotopes,
         poisson |-> IF config.apply_poisson
                     THEN GlobalRand(g.entropy, start + interval.draws) ELSE -1,
         electronic |-> IF config.apply_electronic
                        THEN GlobalRand(g.entropy, start + interval.draws
                                                     + BoolCount(config.apply_poisson))
                        ELSE -1]
  IN  Noised(generate_single_interval(
               config.sources, config.time_interval_seconds,
               config.include_background,
               [background_cps |-> config.background_cps,
                include_k40 |-> config.include_k40,
                include_radon |-> config.include_radon,
                include_thorium |-> config.include_thorium],
               [entropy |-> g.entropy, pos |-> start]))

\* a label that records the activity each source can reach with its variation
source_activities_bq_varied(sources) ==
  [n \in {sources[k].isotope_name : k \in DOMAIN sources} |->
     LET last == sources[CHOOSE k \in DOMAIN sources :
                           /\ sources[k].isotope_name = n
                           /\ \A j \in (k + 1)..Len(sources) : sources[j].isotope_name # n]
     IN  (last.activity_bq * (100 + last.activity_variation)) \div 100]

\* {s.isotope_name: s.activity_bq for s in config.sources}: a dict keeps one
\* value per key, that of the last source with the name
source_activities_bq(sources) ==
  [n \in {sources[k].isotope_name : k \in DOMAIN sources} |->
     sources[CHOOSE k \in DOMAIN sources :
               /\ sources[k].isotope_name = n
               /\ \A j \in (k + 1)..Len(sources) : sources[j].isotope_name # n].activity_bq]

\* generate_spectrum(config) on a generator built with detector self_detector,
\* called when the process-global stream is g.  The matrix is kept as its
\* shape and what determines its rows (SpectrumRow expands a row).
generate_spectrum(config, self_detector, g) ==
  LET num_intervals == NumIntervals(config)
      detector_config == IF config.detector_name \in DOMAIN RADIACODE_CONFIGS
                         THEN RADIACODE_CONFIGS[config.detector_name]
                         ELSE self_detector
      raised == config.normalize /\ config.normalization_method \notin NormalizationMethods
      Spectrum(isotopes_present, background_isotopes) ==
        [raised |-> raised,
         data |-> [shape |-> <<num_intervals, NumUsableChannels(detector_config)>>,
                   detector |-> detector_config.name,
                   config |-> config,
                   noise |-> [entropy |-> g.entropy, from |-> g.pos],
                   normalized |-> IF config.normalize THEN config.normalization_method
                                  ELSE "none"],
         isotopes_present |-> isotopes_present,
         background_isotopes |-> background_isotopes,
         labels |-> [isotopes |-> isotopes_present,
                     source_activities_bq |-> source_activities_bq(config.sources),
                     num_intervals |-> num_intervals,
                     detector |-> config.detector_name,
                     normalized |-> config.normalize],
         \* _generate_sample_id takes one more draw (np.random.randint) unless
         \* normalize_spectrum raised before it
         pos |-> g.pos + num_intervals * DrawsPerRow(config) + (IF raised THEN 0 ELSE 1)]
      \* all_source_isotopes.extend(src_iso) for every row: the isotopes of a
      \* row do not depend on the row's draws, so every row extends the list
      \* by the same names and the set of the list is that of the first row
      OfRows(first) ==
        IF raised THEN Spectrum(<<>>, <<>>)
        ELSE Spectrum(ListOfSet(first.source_isotopes, g.entropy),
                      ListOfSet(Range(first.background_isotopes), g.entropy))
  IN  OfRows(SpectrumRow(config, g, 1))

(***************************************************************************)
(* The counts of a spectrogram (physics/spectrum_physics.py and the row    *)
(* loop of generate_spectrum).  Counts are integers in 1/1000 count,       *)
(* intensities in 1/100000, energies in ticks.  Of the columns of the      *)
(* matrix the model keeps those of ProbeChannels: the channel of the       *)
(* 661.66 keV line and the channel eight above it, about one sigma away.   *)
(***************************************************************************)
\* np.sqrt on integers, rounded down (Newton's iteration)
Isqrt(n) ==
  LET RECURSIVE Newton(_)
      Newton(x) == LET y == (x + n \div x) \div 2
                   IN  IF y >= x THEN x ELSE Newton(y)
  IN  IF n < 2 THEN n ELSE Newton(n)

\* an energy written in 1/100 keV, in ticks
Kev100(e) == (e * TicksPerKev + 50) \div 100

\* isotope.gamma_lines of the isotopes the enumerated sources bring in:
\* <<energy, intensity>>
GammaLines(name) ==
  CASE name = "Cs-137"  -> << <<Kev100(66166), 84990>> >>
    [] name = "Ba-137m" -> << <<Kev100(66166), 89990>> >>
    [] name = "U-238"   -> << <<Kev100(4955), 6>> >>
    [] name = "Th-234"  -> << <<Kev100(6329), 4840>>, <<Kev100(9238), 2740>>,
                              <<Kev100(9280), 2710>> >>
    [] name = "Th-232"  -> << <<Kev100(6381), 26>> >>
    [] OTHER -> <<>>

ProbeChannels(detector_config) ==
  LET top == energy_to_channel(detector_config, Kev100(66166))
  IN  <<top, top + 8>>

\* generate_peak_spectrum(energy_bins, peak_params, detector_config) at the
\* bin of centre bin_energy: calculate_expected_counts, calculate_fwhm,
\* fwhm_to_sigma and gaussian_peak
generate_peak_spectrum(bin_energy, energy_kev, intensity, activity_bq, live_time_s, detector_config) ==
  LET \* activity * live time * intensity * efficiency
      amplitude == (((activity_bq * live_time_s * intensity) \div Fraction)
                      * detector_efficiency(energy_kev, detector_config)) \div Fraction
      \* fwhm_at_662 * 662.0 * sqrt(energy_kev / 662.0), the root in 1/100
      fwhm_kev == (((detector_config.fwhm_at_662 * 662 * TicksPerKev) \div 1000)
                     * Isqrt(((energy_kev \div 662) * Fraction) \div TicksPerKev)) \div 100
      sigma == (fwhm_kev * 1000) \div 2355            \* fwhm / (2 sqrt(2 ln 2))
      distance == IF bin_energy > energy_kev THEN bin_energy - energy_kev
                  ELSE energy_kev - bin_energy
      z == Min(1000, (distance * 100) \div sigma)     \* in 1/100
      prob == ExpNeg((z * z) \div 2)
      \* bin_width / (sigma * sqrt(2 pi)), in 1/10000
      density == (get_channel_width_kev(detector_config) * Fraction)
                   \div ((sigma * 2507) \div 1000)
  IN  IF amplitude <= 0 \/ sigma = 0 THEN 0
      ELSE (((amplitude * prob) \div Fraction) * density) \div Fraction

\* the expected counts generate_single_interval puts in the bin of centre
\* bin_energy: the environmental background (continuum scaled to its total,
\* natural peaks) and the peaks of the sources and their daughters
ExpectedCounts(spectrum, bin_energy, live_time_s, detector_config) ==
  LET width == get_channel_width_kev(detector_config)
      first == channel_to_energy(detector_config, 0)
      Decay(e) == ExpNeg((e * 5) \div 512)            \* exp(-0.002 * E)
      \* sum over the bins of exp(-0.002 * E), a geometric series
      bins_sum == (Decay(first)
                     * (Fraction - Decay(width * NumUsableChannels(detector_config))))
                    \div (Fraction - Decay(width))
      continuum == IF bins_sum > 0
                   THEN (spectrum.background.continuum * Decay(bin_energy)) \div bins_sum
                   ELSE ((spectrum.background.continuum \div 500) * Decay(bin_energy))
                          \div Fraction
      Peak(line, activity) ==
        IF activity < 0 THEN 0
        ELSE generate_peak_spectrum(bin_energy, line[1], line[2], activity,
                                    live_time_s, detector_config)
      RECURSIVE Sum(_, _, _)
      Sum(lines, activity, k) ==
        IF k > Len(lines) THEN 0
        ELSE Peak(lines[k], activity) + Sum(lines, activity, k + 1)
      RECURSIVE Sources(_)
      Sources(p) ==
        IF p > Len(spectrum.peaks) THEN 0
        ELSE Sum(GammaLines(spectrum.peaks[p].isotope), spectrum.peaks[p].activity, 1)
               + Sources(p + 1)
  IN  continuum
        + Sum(<< <<Kev100(146083), 10660>> >>, spectrum.background.k40_activity, 1)
        + Sum(<< <<Kev100(29522), 18420>>, <<Kev100(35193), 35600>>,
                 <<Kev100(60931), 45490>>, <<Kev100(112029), 14920>>,
                 <<Kev100(176449), 15310>> >>, spectrum.background.radon_activity, 1)
        + Sum(<< <<Kev100(91120), 25800>>, <<Kev100(23863), 43600>>,
                 <<Kev100(58319), 30420>>, <<Kev100(261451), 35928>> >>,
              spectrum.background.thorium_activity, 1)
        + Sources(1)

\* apply_poisson_noise on one bin: a whole number of counts around the
\* expectation, chosen by the unit draw u; an expectation of 0 gives 0
apply_poisson_noise(expected, u) ==
  LET lambda == Max(0, expected)
      sampled == lambda + ((u - 50) * Isqrt(lambda * 1000)) \div 25 + 500
  IN  IF sampled <= 0 THEN 0 ELSE (sampled \div 1000) * 1000

\* np.max and np.sum of a matrix
MatrixMax(matrix) ==
  LET RECURSIVE RowMax(_, _)
      RowMax(row, c) == IF c = Len(row) THEN row[c] ELSE Max(row[c], RowMax(row, c + 1))
      RECURSIVE Rows(_)
      Rows(i) == IF i = Len(matrix) THEN RowMax(matrix[i], 1)
                 ELSE Max(RowMax(matrix[i], 1), Rows(i + 1))
  IN  Rows(1)

MatrixSum(matrix) ==
  LET RECURSIVE RowSum(_, _)
      RowSum(row, c) == IF c > Len(row) THEN 0 ELSE row[c] + RowSum(row, c + 1)
      RECURSIVE Rows(_)
      Rows(i) == IF i > Len(matrix) THEN 0 ELSE RowSum(matrix[i], 1) + Rows(i + 1)
  IN  Rows(1)

\* every supported method dividing by the maximum, zero or not
normalize_spectrum_unguarded(spectrum, method) ==
  IF method \in NormalizationMethods
  THEN [raised |-> FALSE,
        array |-> [i \in DOMAIN spectrum |->
                     [c \in DOMAIN spectrum[i] |->
                        [num |-> spectrum[i][c], den |-> MatrixMax(spectrum)]]]]
  ELSE [raised |-> TRUE, array |-> <<>>]

\* normalize_spectrum(spectrum, method) on a matrix: every entry is returned
\* as the fraction num / den, den being the one divisor of the call (1 when
\* nothing is divided); an unsupported method raises the ValueError
normalize_spectrum(spectrum, method) ==
  LET \* np.log1p of a count in 1/1000, in 1/10000
      Log1p(x) ==
        LET n == 1000 + x
            RECURSIVE Halvings(_)
            Halvings(m) == IF m < 2000 THEN 0 ELSE 1 + Halvings(m \div 2)
            RECURSIVE Pow2(_)
            Pow2(k) == IF k = 0 THEN 1 ELSE 2 * Pow2(k - 1)
            k == Halvings(n)
            \* ln(m) = 2 atanh((m - 1) / (m + 1)) for m = n / 2^k in [1, 2)
            z == ((n - 1000 * Pow2(k)) * Fraction) \div (n + 1000 * Pow2(k))
            z3 == (((z * z) \div Fraction) * z) \div Fraction
            z5 == (((z * z) \div Fraction) * z3) \div Fraction
        IN  k * 6931 + 2 * (z + z3 \div 3 + z5 \div 5)
      Transformed(f(_)) == [i \in DOMAIN spectrum |->
                              [c \in DOMAIN spectrum[i] |-> f(spectrum[i][c])]]
      Sqrt(x) == Isqrt(x * 10)                        \* np.sqrt, in 1/100
      \* "if divisor > 0: return values / divisor; return values"
      Divided(values, divisor) ==
        [raised |-> FALSE,
         array |-> [i \in DOMAIN values |->
                      [c \in DOMAIN values[i] |->
                         [num |-> values[i][c],
                          den |-> IF divisor > 0 THEN divisor ELSE 1]]]]
      MaxNormalized(values) == Divided(values, MatrixMax(values))
  IN  CASE method = "max"  -> MaxNormalized(spectrum)
        [] method = "sum"  -> Divided(spectrum, MatrixSum(spectrum))
        [] method = "log"  -> MaxNormalized(Transformed(Log1p))
        [] method = "sqrt" -> MaxNormalized(Transformed(Sqrt))
        [] OTHER -> [raised |-> TRUE, array |-> <<>>]

\* the matrix filled by "for i in range(num_intervals)" of generate_spectrum:
\* every row generated and noised, not yet normalized
RawSpectrogram(config, self_detector, g) ==
  LET detector_config == IF config.detector_name \in DOMAIN RADIACODE_CONFIGS
                         THEN RADIACODE_CONFIGS[config.detector_name]
                         ELSE self_detector
      channels == ProbeChannels(detector_config)
      Noised(row, c) ==
        LET Sampled(expected) ==
              IF row.poisson # -1          \* np.random.poisson draws bin by bin
              THEN apply_poisson_noise(expected, (row.poisson + 37 * c) % 100)
              ELSE expected
        IN  Sampled(ExpectedCounts(row.expected,
                                   channel_to_energy(detector_config, channels[c]),
                                   config.time_interval_seconds, detector_config))
      Row(row) == [c \in DOMAIN channels |-> Noised(row, c)]
  IN  [i \in 1..NumIntervals(config) |-> Row(SpectrumRow(config, g, i))]

\* every row normalized by itself
Spectrogram_perrow(config, spectrogram) ==
  [i \in DOMAIN spectrogram |->
     normalize_spectrum(<<spectrogram[i]>>, config.normalization_method).array[1]]

\* the spectrogram generate_spectrum returns when it does not raise, from the
\* matrix its loop has filled:
\* "if config.normalize: spectrogram = normalize_spectrum(spectrogram, ...)"
Spectrogram(config, spectrogram) ==
  IF config.normalize
  THEN normalize_spectrum(spectrogram, config.normalization_method).array
  ELSE [i \in DOMAIN spectrogram |->
          [c \in DOMAIN spectrogram[i] |-> [num |-> spectrogram[i][c], den |-> 1]]]

(***************************************************************************)
(* The v4 worker function, generate_single_sample_v4.                      *)
(***************************************************************************)
ActivityRange == <<100, 10000>>     \* activity_range = (1.0, 100.0) Bq
BgRange == <<3, 30>>                \* bg_range = (0.3, 3.0) cps, in 1/10 cps
SampleDuration == 300               \* duration = 300.0
ChunkSize == 100                    \* imap_unordered(..., chunksize=100)

Repeat(str, n) == IF n <= 0 THEN "" ELSE IF n = 1 THEN str
                  ELSE IF n = 2 THEN str \o str
                  ELSE IF n = 3 THEN str \o str \o str
                  ELSE IF n = 4 THEN str \o str \o str \o str
                  ELSE IF n = 5 THEN str \o str \o str \o str \o str
                  ELSE IF n = 6 THEN str \o str \o str \o str \o str \o str
                  ELSE str \o str \o str \o str \o str \o str \o str
\* the id taken from the position of the item within its chunk
SampleId_inchunk(sample_idx) ==
  Repeat("0", 8 - Len(ToString(sample_idx % ChunkSize))) \o ToString(sample_idx % ChunkSize)

\* f"{sample_idx:08d}": decimal digits, zero-padded to at least 8
SampleId(sample_idx) ==
  Repeat("0", 8 - Len(ToString(sample_idx))) \o ToString(sample_idx)
NpyPath(sample_id) == "spectra/s" \o sample_id \o ".npy"
LabelPath(sample_id) == "spectra/s" \o sample_id \o ".lbl"
MetadataPath == "metadata.json"

\* {s.isotope_name: s.activity_bq for s in sources}: the last source of a name wins
SourceActivities(sources) ==
  [n \in {sources[k].isotope_name : k \in DOMAIN sources} |->
     sources[CHOOSE k \in DOMAIN sources :
               /\ sources[k].isotope_name = n
               /\ \A j \in (k + 1)..Len(sources) : sources[j].isotope_name # n].activity_bq]

\* lines 320-360 and 375-384: everything generate_single_sample_v4 computes
\* before it writes, in a process whose global state is g
GenerateSampleV4(sample_idx, config, g) ==
  LET seed == config.base_seed + sample_idx
      \* RADIACODE_CONFIGS.get(name) is None for an unknown name, and
      \* SpectrumGenerator(None) falls back to the default preset
      detector_config == DictGet(RADIACODE_CONFIGS, config.detector_name, get_default_config)
      Sample(scenario_name, sources, k, flags, spectrum) ==
        [sample_id |-> SampleId(sample_idx),
         data |-> spectrum.data,
         \* isotopes = spectrum.isotopes_present, and the sources it came from
         isotopes |-> spectrum.isotopes_present,
         sources |-> sources,
         label_data |-> pack_labels(spectrum.isotopes_present,
                                    SourceActivities(sources), flags),
         scenario |-> scenario_name,
         \* how many draws came from the rng seeded with base_seed + sample_idx
         \* and how many from the process-global np.random
         draws |-> [rng |-> k + 4, global |-> spectrum.pos - g.pos],
         pos |-> spectrum.pos]
      Generated(scenario_name, sources, k, include_k40, include_radon, include_thorium) ==
        Sample(scenario_name, sources, k,
               [normalized |-> TRUE, include_k40 |-> include_k40,
                include_radon |-> include_radon, include_thorium |-> include_thorium],
               generate_spectrum(
                 SpectrumConfig(SampleDuration, 1, sources, TRUE,
                                Uniform(Rand(seed, k), config.bg_min, config.bg_max) * 5,
                                include_k40, include_radon, include_thorium,
                                config.detector_name),
                 detector_config, g))
      Scenario(scenario_name, made) ==
        Generated(scenario_name, made.sources, made.k, Rand(seed, made.k + 1) < 95,
                  Rand(seed, made.k + 2) < 80, Rand(seed, made.k + 3) < 60)
      Chosen(scenario_name) ==
        Scenario(scenario_name,
                 IF scenario_name = "background" THEN [sources |-> <<>>, k |-> 1]
                 ELSE generator_func(scenario_name, seed, 1, config.activity_range, g.entropy))
  IN  Chosen(SCENARIOS[ScenarioIndex(Rand(seed, 0))][1])

NoSample == [sample_id |-> "", data |-> <<>>, isotopes |-> <<>>, sources |-> <<>>,
             label_data |-> <<>>, scenario |-> "",
             draws |-> [rng |-> 0, global |-> 0], pos |-> 0]

(***************************************************************************)
(* The parallel builder, generate_training_data_v4: the parent writes the  *)
(* manifest, starts a pool of num_workers processes and iterates           *)
(* pool.imap_unordered(generate_single_sample_v4, work_items, 100).  The   *)
(* pool hands chunks of 100 consecutive work items to idle workers; a      *)
(* worker runs the items of its chunk in order and hands the chunk's       *)
(* results back; the parent counts each result as completed or failed.     *)
(***************************************************************************)
DetectorNames == {"radiacode_103", "radiacode_999"}   \* a preset, and no preset
Seeds == {42}                                         \* --seed default
SampleCounts == {1, MaxSamples}
WorkerCounts == {1, MaxWorkers}                       \* --workers
StartMethods == {"fork", "spawn"}

\* which calls raise, and where: a sample index may raise inside its try block
\* while generating, while saving the array or while saving the label.  A plan
\* maps the raising indices to the stage they raise in.
FailurePlans(n) ==
  { <<>>,
    (0 :> "gen") @@ ((n - 1) :> "npy"),
    ((n - 1) :> "lbl") }
FailStage(i) == DictGet(batch.fail, i, "none")

NumChunks(n) == (n + ChunkSize - 1) \div ChunkSize
LastOfChunk(c, n) == Min(n, (c + 1) * ChunkSize) - 1

IdleWorker(entropy) ==
  [chunk |-> -1, next |-> -1, results |-> <<>>, entropy |-> entropy, pos |-> 0]

SharedConfig ==
  [detector_name |-> batch.detector_name, activity_range |-> ActivityRange,
   bg_min |-> BgRange[1], bg_max |-> BgRange[2], base_seed |-> batch.base_seed]

Metadata ==
  [version |-> 4, num_samples |-> batch.num_samples, duration_seconds |-> 300,
   time_intervals |-> 300, channels |-> 1023, energy_range_kev |-> <<20, 3000>>,
   detector |-> batch.detector_name, label_format |-> "binary",
   isotope_index |-> ISOTOPE_INDEX]

GenIdle == [pc |-> "idle"]

Init ==
  /\ \E n \in SampleCounts, w \in WorkerCounts, s \in Seeds :
       \* the preset with its own energy range is run on the smallest batch
       \E d \in DetectorNames \cup (IF n = 1 THEN {"radiacode_103g"} ELSE {}),
          plan \in FailurePlans(n) :
         /\ batch = [pc |-> "start", num_samples |-> n, num_workers |-> w,
                     detector_name |-> d, base_seed |-> s, fail |-> plan,
                     next_chunk |-> 0, outqueue |-> <<>>, completed |-> 0, failed |-> 0]
         /\ tasks = [i \in 0..(n - 1) |->
                       [result |-> "", draws |-> [rng |-> 0, global |-> 0]]]
  /\ workers = <<>>
  /\ files = <<>>
  /\ codec = CodecIdle
  /\ gen = GenIdle
  /\ calc = CalcIdle

\* lines 413-460: create the output directory and write metadata.json
WriteManifest ==
  /\ batch.pc = "start"
  /\ files' = (MetadataPath :> [content |-> Metadata, writers |-> {-1}]) @@ files
  /\ batch' = [batch EXCEPT !.pc = "pool"]
  /\ UNCHANGED <<calc, codec, gen, tasks, workers>>

\* line 481, Pool(num_workers): the worker processes start.  Forked workers
\* inherit the parent's np.random state and hash seed; spawned workers import
\* numpy afresh and seed both from OS entropy.
StartPool ==
  /\ batch.pc = "pool"
  /\ \E method \in StartMethods :
       workers' = [w \in 1..batch.num_workers |->
                     IdleWorker(IF method = "fork" THEN 0 ELSE w)]
  /\ batch' = [batch EXCEPT !.pc = "collect"]
  /\ UNCHANGED <<calc, codec, gen, tasks, files>>

\* the pool gives the next chunk of work items to an idle worker
TakeChunk(w) ==
  /\ batch.pc = "collect"
  /\ workers[w].chunk = -1
  /\ batch.next_chunk < NumChunks(batch.num_samples)
  /\ workers' = [workers EXCEPT ![w].chunk = batch.next_chunk,
                                ![w].next = batch.next_chunk * ChunkSize,
                                ![w].results = <<>>]
  /\ batch' = [batch EXCEPT !.next_chunk = @ + 1]
  /\ UNCHANGED <<calc, codec, gen, tasks, files>>

\* a worker that saves the label first and the array after it
RunSample_labelfirst(w) ==
  /\ workers[w].chunk >= 0
  /\ LET i == workers[w].next
         stage == FailStage(i)
         g == [entropy |-> workers[w].entropy, pos |-> workers[w].pos]
         last == i = LastOfChunk(workers[w].chunk, batch.num_samples)
         Written(path, content) ==
           path :> [content |-> content,
                    writers |-> DictGet(files, path, [writers |-> {}]).writers \cup {i}]
     IN  \E sample \in {IF stage = "gen" THEN [NoSample EXCEPT !.pos = g.pos]
                         ELSE GenerateSampleV4(i, SharedConfig, g)} :
           LET result == IF stage = "none" THEN sample.sample_id ELSE "None"
               results == Append(workers[w].results, result)
               npy == Written(NpyPath(sample.sample_id), sample.data)
               lbl == Written(LabelPath(sample.sample_id), sample.label_data)
           IN  /\ files' = IF stage = "none" THEN lbl @@ npy @@ files
                            ELSE IF stage = "npy" THEN lbl @@ files
                            ELSE files
               /\ workers' = [workers EXCEPT
                                ![w].chunk = IF last THEN -1 ELSE @,
                                ![w].next = IF last THEN -1 ELSE i + 1,
                                ![w].results = IF last THEN <<>> ELSE results,
                                ![w].pos = sample.pos]
               /\ tasks' = [tasks EXCEPT ![i] = [result |-> result, draws |-> sample.draws]]
               /\ batch' = [batch EXCEPT !.outqueue = IF last THEN @ \o results ELSE @]
  /\ UNCHANGED <<calc, codec, gen>>

\* lines 315-394, one call generate_single_sample_v4(args) in worker w for the
\* next work item of its chunk: generate, save the array, save the label and
\* return the sample id; an exception anywhere in the try block returns None
\* and leaves what was written before it.  After the last item of the chunk
\* the worker hands the chunk's results to the parent.
RunSample(w) ==
  /\ workers[w].chunk >= 0
  /\ LET i == workers[w].next
         stage == FailStage(i)
         g == [entropy |-> workers[w].entropy, pos |-> workers[w].pos]
         last == i = LastOfChunk(workers[w].chunk, batch.num_samples)
         Written(path, content) ==
           path :> [content |-> content,
                    writers |-> DictGet(files, path, [writers |-> {}]).writers \cup {i}]
     IN  \E sample \in {IF stage = "gen" THEN [NoSample EXCEPT !.pos = g.pos]
                         ELSE GenerateSampleV4(i, SharedConfig, g)} :
           LET result == IF stage = "none" THEN sample.sample_id ELSE "None"
               results == Append(workers[w].results, result)
               npy == Written(NpyPath(sample.sample_id), sample.data)
               lbl == Written(LabelPath(sample.sample_id), sample.label_data)
           IN  /\ files' = IF stage = "none" THEN lbl @@ npy @@ files
                            ELSE IF stage = "lbl" THEN npy @@ files
                            ELSE files
               /\ workers' = [workers EXCEPT
                                ![w].chunk = IF last THEN -1 ELSE @,
                                ![w].next = IF last THEN -1 ELSE i + 1,
                                ![w].results = IF last THEN <<>> ELSE results,
                                ![w].pos = sample.pos]
               /\ tasks' = [tasks EXCEPT ![i] = [result |-> result, draws |-> sample.draws]]
               /\ batch' = [batch EXCEPT !.outqueue = IF last THEN @ \o results ELSE @]
  /\ UNCHANGED <<calc, codec, gen>>

\* the parent's loop counting only the successes
Collect_dropfailed ==
  /\ batch.pc = "collect"
  /\ batch.outqueue # <<>>
  /\ batch' = [batch EXCEPT
                 !.outqueue = Tail(@),
                 !.completed = IF Head(batch.outqueue) # "None" THEN @ + 1 ELSE @]
  /\ UNCHANGED <<calc, codec, gen, tasks, workers, files>>

\* lines 482-488: one iteration of the parent's loop over imap_unordered
Collect ==
  /\ batch.pc = "collect"
  /\ batch.outqueue # <<>>
  /\ batch' = [batch EXCEPT
                 !.outqueue = Tail(@),
                 !.completed = IF Head(batch.outqueue) # "None" THEN @ + 1 ELSE @,
                 !.failed = IF Head(batch.outqueue) # "None" THEN @ ELSE @ + 1]
  /\ UNCHANGED <<calc, codec, gen, tasks, workers, files>>

\* lines 501-509: the iterator is exhausted after num_samples results
Finish ==
  /\ batch.pc = "collect"
  /\ batch.completed + batch.failed = batch.num_samples
  /\ batch' = [batch EXCEPT !.pc = "done"]
  /\ UNCHANGED <<calc, codec, gen, tasks, workers, files>>

Next ==
  \/ WriteManifest
  \/ StartPool
  \/ \E w \in DOMAIN workers : TakeChunk(w)
  \/ \E w \in DOMAIN workers : RunSample(w)
  \/ Collect
  \/ Finish

Spec == Init /\ [][Next]_vars

\* the other components while the codec or the generator specification runs
BatchIdle == [pc |-> "idle"]
NoTasks == <<>>
NoWorkers == <<>>
NoFiles == <<>>

(***************************************************************************)
(* Claims about the parallel builder (specification Spec).                 *)
(***************************************************************************)
Returned(i) == tasks[i].result \notin {"", "None"}
Raising == DOMAIN batch.fail
SuccessfulIds == {tasks[i].result : i \in DOMAIN tasks} \ {"", "None"}
\* the id and the two paths of every index of a batch
SampleIds == [i \in 0..(MaxSamples - 1) |-> SampleId(i)]
NpyPaths == [i \in 0..(MaxSamples - 1) |-> NpyPath(SampleId(i))]
LabelPaths == [i \in 0..(MaxSamples - 1) |-> LabelPath(SampleId(i))]
\* the parent or a worker can take a step of the batch
CanStep ==
  \/ batch.pc \in {"start", "pool"}
  \/ \E w \in DOMAIN workers : workers[w].chunk >= 0
  \/ /\ batch.next_chunk < NumChunks(batch.num_samples)
     /\ \E w \in DOMAIN workers : workers[w].chunk = -1
  \/ batch.outqueue # <<>>
  \/ batch.completed + batch.failed = batch.num_samples

\* the sample of index i as its task makes it when it is the first call of a
\* forked worker process
FirstCallSample(i) == GenerateSampleV4(i, SharedConfig, [entropy |-> 0, pos |-> 0])

\* C1: for a fixed base_seed and shared config the array file and the label
\* file of sample i are the same whichever worker runs the task and whatever
\* the worker ran before it, every draw coming from the generator seeded with
\* base_seed + i: the files of a returned sample are those of its first-call
\* sample and the task drew nothing from the process-global stream.
C1_SchedulingIndependent ==
  \A i \in DOMAIN tasks :
    Returned(i) =>
      /\ files[NpyPaths[i]].content = FirstCallSample(i).data
      /\ files[LabelPaths[i]].content = FirstCallSample(i).label_data
      /\ tasks[i].draws.global = 0

\* C3: whichever tasks raise, the batch runs to completion: before the end
\* some step is always possible (a raising task stops neither the workers nor
\* the parent), and at the end every raising task was reported failed, every
\* other task completed, and completed + failed = N.
C3_BatchCompletes ==
  /\ batch.pc # "done" => CanStep
  /\ batch.pc = "done" =>
       /\ batch.completed + batch.failed = batch.num_samples
       /\ batch.failed = Cardinality(Raising)
       /\ batch.completed = batch.num_samples - Cardinality(Raising)
       /\ \A i \in DOMAIN tasks : tasks[i].result = "None" <=> i \in Raising

C3_Witness ==
  /\ batch.pc = "done"
  /\ batch.failed > 0
  /\ batch.completed > 0

\* C4: the set of sample ids returned as successful depends on the sample
\* count and on which tasks raise, not on the number of workers or the order
\* of completion: a task returns nothing but the id of its own index, and at
\* the end the ids are those of the non-raising indices, all different.
C4_SuccessfulIds ==
  /\ \A i \in DOMAIN tasks : tasks[i].result \in {"", "None", SampleIds[i]}
  /\ Cardinality(SuccessfulIds) = Cardinality({i \in DOMAIN tasks : Returned(i)})
  /\ batch.pc = "done" =>
       SuccessfulIds = {SampleIds[i] : i \in DOMAIN tasks \ Raising}

C4_Witness ==
  /\ batch.pc = "done"
  /\ batch.num_workers = MaxWorkers
  /\ batch.num_samples = MaxSamples
  /\ Raising # {}
  /\ SuccessfulIds # {}

\* C8: tasks of different sample indices write different array and label
\* paths: no file has been written by more than one task, a sample file was
\* written by the task whose array or label path it is, and the id a worker
\* is about to use is the id of no other index.
C8_DistinctPaths ==
  /\ \A p \in DOMAIN files : Cardinality(files[p].writers) <= 1
  /\ \A p \in DOMAIN files \ {MetadataPath} :
       \A i \in files[p].writers :
         /\ p \in {NpyPaths[i], LabelPaths[i]}
         /\ NpyPaths[i] # LabelPaths[i]
  /\ \A w \in DOMAIN workers :
       workers[w].chunk >= 0 =>
         \A i \in DOMAIN tasks \ {workers[w].next} :
           SampleIds[i] # SampleIds[workers[w].next]

\* two worker processes have both written sample files, one of them still
\* inside its chunk
C8_Witness ==
  /\ \E w \in DOMAIN workers : workers[w].chunk = 0 /\ workers[w].next > 1
  /\ NpyPaths[0] \in DOMAIN files
  /\ LabelPaths[1] \in DOMAIN files
  /\ NpyPaths[ChunkSize] \in DOMAIN files

\* C9: a batch whose configuration names an unknown detector preset is
\* rejected before any worker task starts: no worker process is started and
\* no sample of the batch is generated or written.
C9_RejectedBeforeWorkers ==
  batch.detector_name \notin DOMAIN RADIACODE_CONFIGS =>
    /\ workers = <<>>
    /\ \A i \in DOMAIN tasks : tasks[i].result = ""
    /\ DOMAIN files \subseteq {MetadataPath}

\* the preset the batch is run with
BatchPreset == RADIACODE_CONFIGS[batch.detector_name]

\* C22: the manifest is written before any worker task starts and records,
\* for whichever detector preset the batch is run with, that preset's usable
\* channel count and configured energy range, the preset name, and the
\* isotope-name -> index table pack_labels uses for the labels of the batch.
C22_ManifestOfPreset ==
  /\ (workers # <<>> \/ \E i \in DOMAIN tasks : tasks[i].result # "") =>
       MetadataPath \in DOMAIN files
  /\ (MetadataPath \in DOMAIN files /\ batch.detector_name \in DOMAIN RADIACODE_CONFIGS) =>
       /\ files[MetadataPath].content.channels
            = BatchPreset.num_channels - (IF BatchPreset.skip_first_channel THEN 1 ELSE 0)
       /\ files[MetadataPath].content.energy_range_kev
            = <<BatchPreset.energy_min_kev, BatchPreset.energy_max_kev>>
       /\ files[MetadataPath].content.detector = batch.detector_name
       /\ files[MetadataPath].content.isotope_index = ISOTOPE_INDEX

HasNpy(i) == NpyPaths[i] \in DOMAIN files
HasLabel(i) == LabelPaths[i] \in DOMAIN files

\* C28: in the v4 worker the array file of a sample is written before its
\* label file and the sample id is returned only after both writes, so at
\* every point of a batch a label file s<i>.lbl exists only if the array file
\* s<i>.npy exists, and every sample counted as completed has both files.
C28_ArrayBeforeLabel ==
  /\ \A i \in DOMAIN tasks :
       /\ HasLabel(i) => HasNpy(i)
       /\ Returned(i) => HasNpy(i) /\ HasLabel(i)
  /\ batch.completed <= Cardinality({i \in DOMAIN tasks : HasNpy(i) /\ HasLabel(i)})

\* a batch in which the label write of one sample raised after its array was
\* saved, while other samples were counted as completed
C28_Witness ==
  /\ batch.completed > 0
  /\ \E i \in DOMAIN tasks :
       HasNpy(i) /\ ~HasLabel(i) /\ tasks[i].result = "None"
(***************************************************************************)
(* Codec specification: a label is drawn, packed, then unpacked.           *)
(***************************************************************************)
FlagNames == {"normalized", "include_k40", "include_radon", "include_thorium"}

\* names the enumerated labels are built from: registry isotopes with and
\* without gamma lines, a parent and its daughter
CodecNames == {"K-40", "Cs-137", "Ba-137m", "Ra-228"}

\* activities (cBq) around the quantization step, mid-scale and the 1000 Bq cap
ActSamples == <<0, 1, 2, 3, 763, 10000, 50000, 99999, 100000, 100001, 250000>>

ShortLists == UNION {[1..n -> CodecNames] : n \in 0..MaxLen}
\* long lists walk the master list, so the count cap is reached
LongList(n) == [k \in 1..n |-> _all_isotopes[((k - 1) % Len(_all_isotopes)) + 1].name]
LongLists == {LongList(n) : n \in (MaxCount - 1)..MaxLongLen}

\* the activities dict of a label: one activity per distinct isotope
ActivityPattern(isotopes, shift) ==
  [n \in Range(isotopes) |->
     ActSamples[(((CHOOSE k \in DOMAIN isotopes : isotopes[k] = n) + shift)
                  % Len(ActSamples)) + 1]]


InitCodec ==
  /\ \E isotopes \in ShortLists \cup LongLists, shift \in 0..(Len(ActSamples) - 1),
        flags \in [FlagNames -> BOOLEAN] :
       codec = [pc |-> "input", isotopes |-> isotopes,
                activities |-> ActivityPattern(isotopes, shift), flags |-> flags,
                packed |-> <<>>, decoded |-> NoDecoded]
  /\ gen = GenIdle
  /\ batch = BatchIdle
  /\ tasks = NoTasks
  /\ workers = NoWorkers
  /\ files = NoFiles
  /\ calc = CalcIdle

Pack ==
  /\ codec.pc = "input"
  /\ codec' = [codec EXCEPT !.pc = "packed",
                 !.packed = pack_labels(codec.isotopes, codec.activities, codec.flags)]
  /\ UNCHANGED <<calc, gen, batch, tasks, workers, files>>

Unpack ==
  /\ codec.pc = "packed"
  /\ codec' = [codec EXCEPT !.pc = "unpacked", !.decoded = unpack_labels(codec.packed)]
  /\ UNCHANGED <<calc, gen, batch, tasks, workers, files>>

NextCodec == Pack \/ Unpack

SpecCodec == InitCodec /\ [][NextCodec]_vars

(***************************************************************************)
(* Properties of the codec.                                                *)
(***************************************************************************)
\* what the packed bytes hold, read straight from the byte string
PackedCount == codec.packed[1]
IndexAt(k) == codec.packed[1 + k]
StoredAt(k) == codec.packed[1 + PackedCount + 2 * k - 1]
                 + 256 * codec.packed[1 + PackedCount + 2 * k]
LabelActivity(k) == codec.activities[codec.isotopes[k]]
\* |activity - num/den| < 1/65.535 Bq
WithinStep(activity, q) ==
  /\ activity * q.den - q.num < ScaleDen
  /\ q.num - activity * q.den < ScaleDen
IsLastOccurrence(k) ==
  \A j \in (k + 1)..Len(codec.decoded.isotopes) :
     codec.decoded.isotopes[j] # codec.decoded.isotopes[k]

\* C5: for every label with at most 255 isotopes and every activity in
\* [0, 1000] Bq, unpack_labels(pack_labels(x)) returns exactly the isotopes of
\* x and, for each isotope, an activity less than 1/65.535 Bq from the original.
C5_RoundTrip ==
  ( /\ codec.pc = "unpacked"
    /\ Len(codec.isotopes) <= 255
    /\ \A n \in DOMAIN codec.activities : codec.activities[n] \in 0..MaxActivity )
  => /\ codec.decoded.isotopes = codec.isotopes
     /\ \A n \in Range(codec.isotopes) :
          /\ n \in DOMAIN codec.decoded.activities
          /\ WithinStep(codec.activities[n], codec.decoded.activities[n])

\* C6 as stated: every stored uint16 is round-to-nearest of
\* min(activity, 1000.0) * 65.535.
C6_StoredIsRounded ==
  codec.pc = "unpacked" =>
    \A k \in 1..PackedCount :
       StoredAt(k) = RoundNearest(Min(LabelActivity(k), MaxActivity) * ScaleNum, ScaleDen)

\* C6 amended: every stored uint16 is min(activity, 1000.0) * 65.535 truncated
\* toward zero (floor, for the non-negative activities of a label), so every
\* activity of 1000 Bq or more is stored as 65535, and unpack_labels returns
\* stored / 65.535.
C6_StoredIsTruncated ==
  codec.pc = "unpacked" =>
    \A k \in 1..PackedCount :
       /\ StoredAt(k) = (Min(LabelActivity(k), MaxActivity) * ScaleNum) \div ScaleDen
       /\ LabelActivity(k) >= MaxActivity => StoredAt(k) = 65535
       /\ IsLastOccurrence(k) =>
            /\ codec.decoded.activities[codec.decoded.isotopes[k]].num = StoredAt(k) * ScaleDen
            /\ codec.decoded.activities[codec.decoded.isotopes[k]].den = ScaleNum

\* a label was packed and unpacked in which truncation and rounding differ for
\* one activity and another activity lies above 1000 Bq
C6_Witness ==
  /\ codec.pc = "unpacked"
  /\ \E k \in 1..PackedCount :
       StoredAt(k) # RoundNearest(Min(LabelActivity(k), MaxActivity) * ScaleNum, ScaleDen)
  /\ \E k \in 1..PackedCount : LabelActivity(k) > MaxActivity /\ StoredAt(k) = 65535

\* C7: for a list of n isotopes pack_labels emits 1 + 3K + 1 bytes, K = min(n, 255):
\* the count byte K, K index bytes for the first K isotopes, K little-endian
\* uint16 activities, one flag byte with bits 0..3 = normalized, k40, radon,
\* thorium and bits 4..7 zero; unpack_labels reads K isotopes and returns the
\* four flags unchanged.
C7_Layout ==
  codec.pc = "unpacked" =>
    LET n == Len(codec.isotopes)
        K == IF n < 255 THEN n ELSE 255
        flagByte == codec.packed[Len(codec.packed)]
    IN  /\ Len(codec.packed) = 1 + 3 * K + 1
        /\ \A j \in 1..Len(codec.packed) : codec.packed[j] \in 0..255
        /\ codec.packed[1] = K
        /\ \A k \in 1..K :
             /\ codec.isotopes[k] \in DOMAIN ISOTOPE_INDEX
                  => codec.packed[1 + k] = ISOTOPE_INDEX[codec.isotopes[k]]
             /\ codec.packed[1 + K + 2 * k - 1] + 256 * codec.packed[1 + K + 2 * k]
                  = ScaleActivity(codec.activities[codec.isotopes[k]])
        /\ flagByte = (IF codec.flags["normalized"] THEN 1 ELSE 0)
                        + (IF codec.flags["include_k40"] THEN 2 ELSE 0)
                        + (IF codec.flags["include_radon"] THEN 4 ELSE 0)
                        + (IF codec.flags["include_thorium"] THEN 8 ELSE 0)
        /\ flagByte < 16
        /\ Len(codec.decoded.isotopes) = K
        /\ codec.decoded.normalized = codec.flags["normalized"]
        /\ codec.decoded.include_k40 = codec.flags["include_k40"]
        /\ codec.decoded.include_radon = codec.flags["include_radon"]
        /\ codec.decoded.include_thorium = codec.flags["include_thorium"]

\* a list longer than 255 isotopes was packed and unpacked, with radon set and
\* thorium clear
C7_Witness ==
  /\ codec.pc = "unpacked"
  /\ Len(codec.isotopes) > 255
  /\ codec.packed[1] = 255
  /\ codec.flags["include_radon"] /\ ~codec.flags["include_thorium"]

\* the two master tables are inverse bijections between the registry's
\* isotopes with a gamma line and 0 .. NUM_ISOTOPES - 1, all below 256
IndexTablesInverse ==
  /\ DOMAIN ISOTOPE_INDEX
       = {get_all_isotopes[k].name : k \in {j \in DOMAIN get_all_isotopes :
                                               get_all_isotopes[j].gamma > 0}}
  /\ DOMAIN INDEX_TO_ISOTOPE = 0..(NUM_ISOTOPES - 1)
  /\ \A n \in DOMAIN ISOTOPE_INDEX :
       ISOTOPE_INDEX[n] \in 0..(NUM_ISOTOPES - 1) /\ INDEX_TO_ISOTOPE[ISOTOPE_INDEX[n]] = n
  /\ \A i \in DOMAIN INDEX_TO_ISOTOPE : ISOTOPE_INDEX[INDEX_TO_ISOTOPE[i]] = i
  /\ NUM_ISOTOPES <= 256

\* C29: the master tables ISOTOPE_INDEX and INDEX_TO_ISOTOPE are inverse
\* bijections between the registry's isotopes that have at least one gamma
\* line and the indices 0 .. NUM_ISOTOPES - 1, and every index is below 256, so
\* every index written by pack_labels fits in one byte and is decoded by
\* unpack_labels to the name it was encoded from.
C29_IndexRoundTrip ==
  /\ IndexTablesInverse
  /\ codec.pc = "unpacked" =>
       \A k \in 1..PackedCount :
          /\ IndexAt(k) \in 0..255
          /\ codec.decoded.isotopes[k] = codec.isotopes[k]

(***************************************************************************)
(* SpecGen: one call of SpectrumGenerator.generate_spectrum on a           *)
(* configuration given by the caller.                                      *)
(***************************************************************************)
\* declared sources: a registered isotope with its daughters and, at another
\* activity and with an activity variation, without them; the roots of two
\* long decay chains; and a name absent from the registry
GenSources ==
  { IsotopeSource("Cs-137", 5000, TRUE),
    [IsotopeSource("Cs-137", 10000, FALSE) EXCEPT !.activity_variation = 10],
    IsotopeSource("U-238", 2000, TRUE),
    [IsotopeSource("Th-232", 100, TRUE) EXCEPT !.activity_variation = 10],
    [IsotopeSource("Xx-999", 2000, TRUE) EXCEPT !.activity_variation = 10] }
GenSourceLists == UNION { [1..n -> GenSources] : n \in 0..MaxLen }
GenMethods == {"max", "minmax"}      \* a supported method, and an unsupported one
GenDurations == {3, 0, -3}
GenIntervals == {1, 2}
\* the detector the generator is constructed with: the default preset, or a
\* DetectorConfig of the caller with its own channels
GenDetectors ==
  { get_default_config,
    [get_default_config EXCEPT !.name = "custom", !.num_channels = 512,
                               !.skip_first_channel = FALSE] }

InitGen ==
  /\ \E sources \in GenSourceLists, method \in GenMethods, duration \in GenDurations,
        interval \in GenIntervals, d \in DetectorNames, e \in 0..1, bg \in BOOLEAN,
        poisson \in BOOLEAN, detector_config \in GenDetectors :
       gen = [pc |-> "ready",
              config |-> [SpectrumConfig(duration, interval, sources, bg, 10, TRUE, TRUE, FALSE, d)
                            EXCEPT !.normalization_method = method,
                                   !.apply_poisson = poisson],
              \* SpectrumGenerator(detector_config): self.detector_config
              detector |-> detector_config,
              g |-> [entropy |-> e, pos |-> 0],
              result |-> <<>>]
  /\ codec = CodecIdle
  /\ batch = BatchIdle
  /\ tasks = NoTasks
  /\ workers = NoWorkers
  /\ files = NoFiles
  /\ calc = CalcIdle

\* generator.py lines 230-323: the call returns a sample or raises the
\* ValueError of normalize_spectrum
GenerateSpectrum ==
  /\ gen.pc = "ready"
  /\ \E result \in {generate_spectrum(gen.config, gen.detector, gen.g)} :
       gen' = [gen EXCEPT !.pc = IF result.raised THEN "raised" ELSE "returned",
                          !.result = result,
                          !.g = [entropy |-> gen.g.entropy, pos |-> result.pos]]
  /\ UNCHANGED <<calc, codec, batch, tasks, workers, files>>

NextGen == GenerateSpectrum

SpecGen == InitGen /\ [][NextGen]_vars

DeclaredNames == {gen.config.sources[k].isotope_name : k \in DOMAIN gen.config.sources}
AbsentNames == DeclaredNames \ DatabaseNames
\* the isotopes whose peaks were added to row i of the returned spectrogram
RowIsotopes(i) ==
  PeakIsotopes(SpectrumRow(gen.config, [entropy |-> gen.result.data.noise.entropy,
                                        pos |-> gen.result.data.noise.from], i).expected.peaks)

\* C10: a declared source naming an isotope absent from the registry does not
\* stop generate_spectrum (the call raises only for an unsupported
\* normalization method); in the returned sample that source has added
\* nothing to any row and is not in isotopes_present, and every registered
\* source has its peaks in every row and is in isotopes_present.
C10_UnknownSourceSkipped ==
  /\ gen.pc = "raised" =>
       gen.config.normalization_method \notin NormalizationMethods
  /\ gen.pc = "returned" =>
       /\ AbsentNames \cap Range(gen.result.isotopes_present) = {}
       /\ DeclaredNames \ AbsentNames \subseteq Range(gen.result.isotopes_present)
       /\ \A i \in 1..gen.result.data.shape[1] :
            /\ AbsentNames \cap RowIsotopes(i) = {}
            /\ DeclaredNames \ AbsentNames \subseteq RowIsotopes(i)

C10_Witness ==
  /\ gen.pc = "returned"
  /\ AbsentNames # {}
  /\ DeclaredNames \ AbsentNames # {}
  /\ gen.config.sources[1].isotope_name \in AbsentNames
  /\ gen.result.data.shape[1] > 1

\* row i of the returned spectrogram: what it expects and the draws that noised it
ResultRow(i) ==
  SpectrumRow(gen.config, [entropy |-> gen.result.data.noise.entropy,
                           pos |-> gen.result.data.noise.from], i)

\* C11: whatever the SpectrumConfig, every row of the matrix returned by
\* generate_spectrum has been Poisson sampled; no row holds the un-sampled
\* expectation.
C11_EveryRowSampled ==
  gen.pc = "returned" =>
    \A i \in 1..gen.result.data.shape[1] : ResultRow(i).poisson # -1

\* the chain daughters of a declared source that the registry knows
KnownChainDaughters(name) == Range(get_chain_daughters(name, FALSE)) \cap DatabaseNames
\* row i has peaks of isotope d at the activity of its peaks of isotope name
SameActivity(i, name, d) ==
  \E p, q \in DOMAIN ResultRow(i).expected.peaks :
    /\ ResultRow(i).expected.peaks[p].isotope = name
    /\ ResultRow(i).expected.peaks[q].isotope = d
    /\ ResultRow(i).expected.peaks[p].activity = ResultRow(i).expected.peaks[q].activity

\* C16: for every declared source with include_daughters set, each isotope of
\* get_chain_daughters(source, include_parent=False) that is in the registry
\* has its peaks in every row at the activity of the source in that row and
\* is in isotopes_present; a source with include_daughters unset brings in
\* none of its daughters (a daughter is then present only if it is declared
\* itself or comes with another source).
C16_ChainDaughtersContribute ==
  gen.pc = "returned" =>
    \A k \in DOMAIN gen.config.sources :
      IsKnown(gen.config.sources[k].isotope_name) =>
        \A d \in KnownChainDaughters(gen.config.sources[k].isotope_name) :
          IF gen.config.sources[k].include_daughters
          THEN /\ d \in Range(gen.result.isotopes_present)
               /\ \A i \in 1..gen.result.data.shape[1] :
                    SameActivity(i, gen.config.sources[k].isotope_name, d)
          ELSE \/ d \in DeclaredNames
               \/ \E j \in DOMAIN gen.config.sources :
                    /\ gen.config.sources[j].include_daughters
                    /\ d \in KnownChainDaughters(gen.config.sources[j].isotope_name)
               \/ /\ d \notin Range(gen.result.isotopes_present)
                  /\ \A i \in 1..gen.result.data.shape[1] : d \notin RowIsotopes(i)

\* C17 as stated: for every source of config.sources the label records that
\* source's configured activity_bq.
C17_EverySourceRecorded ==
  gen.pc = "returned" =>
    \A k \in DOMAIN gen.config.sources :
      gen.result.labels.source_activities_bq[gen.config.sources[k].isotope_name]
        = gen.config.sources[k].activity_bq

\* the last source of config.sources with the name n
LastSource(n) ==
  gen.config.sources[CHOOSE k \in DOMAIN gen.config.sources :
                       /\ gen.config.sources[k].isotope_name = n
                       /\ \A j \in (k + 1)..Len(gen.config.sources) :
                            gen.config.sources[j].isotope_name # n]

\* C17 as amended: the label has one activity per declared isotope name, the
\* configured activity_bq of the last source with that name, whatever the
\* activity variation and the noise of the rows (and whether or not the
\* registry knows the name).
C17_NominalActivityPerName ==
  gen.pc = "returned" =>
    /\ DOMAIN gen.result.labels.source_activities_bq = DeclaredNames
    /\ \A n \in DeclaredNames :
         gen.result.labels.source_activities_bq[n] = LastSource(n).activity_bq

\* a returned sample with two sources of one name declared at two activities,
\* the later of which had its activity varied in the rows
C17_Witness ==
  /\ gen.pc = "returned"
  /\ gen.config.apply_poisson
  /\ \E j, k \in DOMAIN gen.config.sources :
       /\ j < k
       /\ gen.config.sources[j].isotope_name = gen.config.sources[k].isotope_name
       /\ gen.config.sources[j].activity_bq # gen.config.sources[k].activity_bq
       /\ Jitters(gen.config.sources[k])
       /\ \E p \in DOMAIN ResultRow(1).expected.peaks :
            /\ ResultRow(1).expected.peaks[p].isotope = gen.config.sources[k].isotope_name
            /\ ResultRow(1).expected.peaks[p].activity
                 \notin {gen.config.sources[j].activity_bq, gen.config.sources[k].activity_bq}

\* the rows of the returned sample before normalization
ResultRaw ==
  RawSpectrogram(gen.config, gen.detector, [entropy |-> gen.result.data.noise.entropy,
                                            pos |-> gen.result.data.noise.from])

\* data is raw with every entry over one divisor, the maximum of the whole
\* of raw (raw itself when that maximum is 0), so that any two entries of
\* data are in the ratio of the same entries of raw: as the divisor is one,
\* raw[i][c] / raw[j][d] = data[i][c] / data[j][d] is the cross product below
DividedByWholeMax(raw, data) ==
  LET Over(divisor) ==
        /\ DOMAIN data = DOMAIN raw
        /\ \A i \in DOMAIN raw :
             /\ DOMAIN data[i] = DOMAIN raw[i]
             /\ \A c \in DOMAIN raw[i] :
                  /\ data[i][c].den = divisor
                  /\ \A j \in DOMAIN raw : \A d \in DOMAIN raw[j] :
                       raw[i][c] * data[j][d].num = raw[j][d] * data[i][c].num
  IN  Over(IF MatrixMax(raw) > 0 THEN MatrixMax(raw) ELSE 1)

\* the spectrogram of the returned sample is its rows normalized as a whole
NormalizedWhole(raw) == DividedByWholeMax(raw, Spectrogram(gen.config, raw))

\* C18: generate_spectrum normalizes once, after every row has been
\* generated and noised, with one divisor computed from the whole matrix and
\* no row on its own: for method max the ratio between any two entries of the
\* matrix, of one row or of two, is the same before and after normalization.
C18_WholeMatrixNormalizedOnce ==
  (gen.pc = "returned" /\ gen.config.normalize
     /\ gen.config.normalization_method = "max") =>
    NormalizedWhole(ResultRaw)

\* a returned sample of several noised rows whose largest counts differ from
\* row to row, so that a row normalized on its own would not keep its ratio
\* to the other rows
C18_Witness ==
  /\ gen.pc = "returned"
  /\ gen.config.normalize
  /\ gen.config.normalization_method = "max"
  /\ gen.config.apply_poisson
  /\ gen.result.data.shape[1] > 1
  /\ \E raw \in {ResultRaw} :
       \E i, j \in DOMAIN raw :
         /\ MatrixMax(<<raw[i]>>) > MatrixMax(<<raw[j]>>)
         /\ MatrixMax(<<raw[j]>>) > 0
         /\ \E c \in DOMAIN raw[j] : raw[j][c] # MatrixMax(<<raw[j]>>)

\* C19: for every duration and positive interval the returned matrix has
\* max(1, floor(duration_seconds / time_interval_seconds)) rows and one column
\* per usable channel of the preset config.detector_name names, whatever
\* detector the generator was constructed with, and the label's
\* num_intervals is the number of rows.
C19_MatrixShape ==
  (gen.pc = "returned" /\ gen.config.time_interval_seconds > 0) =>
    /\ gen.result.data.shape[1]
         = (IF gen.config.duration_seconds \div gen.config.time_interval_seconds >= 1
            THEN gen.config.duration_seconds \div gen.config.time_interval_seconds
            ELSE 1)
    /\ gen.result.labels.num_intervals = gen.result.data.shape[1]
    /\ gen.config.detector_name \in DOMAIN RADIACODE_CONFIGS =>
         gen.result.data.shape[2]
           = RADIACODE_CONFIGS[gen.config.detector_name].num_channels
               - (IF RADIACODE_CONFIGS[gen.config.detector_name].skip_first_channel
                  THEN 1 ELSE 0)

\* a returned matrix of one row for a whole number of intervals below one
\* (a negative duration), made by a generator constructed with another
\* detector than the preset the configuration names
C19_Witness ==
  /\ gen.pc = "returned"
  /\ gen.config.duration_seconds < 0
  /\ gen.config.time_interval_seconds = 2
  /\ gen.config.detector_name \in DOMAIN RADIACODE_CONFIGS
  /\ gen.detector.num_channels # RADIACODE_CONFIGS[gen.config.detector_name].num_channels
  /\ gen.result.data.shape = <<1, 1023>>

\* the sources of the configuration that the registry knows
KnownSources == {k \in DOMAIN gen.config.sources : IsKnown(gen.config.sources[k].isotope_name)}

\* C20: with background disabled, isotopes_present of the returned sample has
\* no duplicates, whatever the number of rows and of repeated sources, and is
\* exactly the registry-known declared sources plus, for each source with
\* include_daughters, its chain daughters; for the single source Cs-137 it is
\* {Cs-137} without daughters and {Cs-137, Ba-137m} with them.
C20_IsotopesPresentExact ==
  (gen.pc = "returned" /\ ~gen.config.include_background) =>
    /\ \A i, j \in DOMAIN gen.result.isotopes_present :
         i # j => gen.result.isotopes_present[i] # gen.result.isotopes_present[j]
    /\ Range(gen.result.isotopes_present)
         = {gen.config.sources[k].isotope_name : k \in KnownSources}
             \cup UNION {KnownChainDaughters(gen.config.sources[k].isotope_name) :
                           k \in {s \in KnownSources : gen.config.sources[s].include_daughters}}

(***************************************************************************)
(* SpecRepeat: generate_single_sample_v4 called twice with the same        *)
(* arguments (sample_idx, output_dir, config, base_seed), by the same      *)
(* process or, the process having ended in between, by a new one.          *)
(***************************************************************************)
RepeatSeeds == {23, 42, 1000}

InitRepeat ==
  /\ \E i \in 0..MaxIndex, d \in DetectorNames, s \in RepeatSeeds, e \in 0..1 :
       /\ batch = [pc |-> "first", sample_idx |-> i, detector_name |-> d, base_seed |-> s]
       /\ workers = <<IdleWorker(e)>>
  /\ tasks = <<>>
  /\ files = <<>>
  /\ codec = CodecIdle
  /\ gen = GenIdle
  /\ calc = CalcIdle

\* lines 315-394: one call; the files of the first call are overwritten by
\* the second, and tasks keeps what each call wrote and what it wrote it from
CallSample ==
  /\ batch.pc \in {"first", "second"}
  /\ \E sample \in {GenerateSampleV4(batch.sample_idx, SharedConfig,
                                     [entropy |-> workers[1].entropy,
                                      pos |-> workers[1].pos])} :
       /\ files' = (NpyPath(sample.sample_id) :>
                      [content |-> sample.data, writers |-> {batch.sample_idx}])
                   @@ (LabelPath(sample.sample_id) :>
                         [content |-> sample.label_data, writers |-> {batch.sample_idx}])
                   @@ files
       /\ tasks' = Append(tasks, [result |-> sample.sample_id, array |-> sample.data,
                                  label |-> sample.label_data, draws |-> sample.draws,
                                  isotopes |-> sample.isotopes,
                                  sources |-> sample.sources])
       /\ workers' = [workers EXCEPT ![1].pos = sample.pos]
  /\ batch' = [batch EXCEPT !.pc = IF batch.pc = "first" THEN "second" ELSE "done"]
  /\ UNCHANGED <<calc, codec, gen>>

\* the second call is made by a new process: numpy is imported afresh and the
\* interpreter takes a new hash seed
NewProcess ==
  /\ batch.pc = "second"
  /\ workers[1].pos > 0
  /\ \E e \in 0..1 : workers' = <<IdleWorker(e)>>
  /\ UNCHANGED <<calc, codec, gen, batch, tasks, files>>

NextRepeat == CallSample \/ NewProcess

SpecRepeat == InitRepeat /\ [][NextRepeat]_vars

\* C2: generate_single_sample_v4 called twice with the same (base_seed, index),
\* shared config and registries writes a bit-identical array and a
\* bit-identical label both times.
C2_RepeatIdentical ==
  batch.pc = "done" =>
    /\ tasks[1].array = tasks[2].array
    /\ tasks[1].label = tasks[2].label

\* the names the label of call k decodes to
DecodedIsotopes(k) == Range(unpack_labels(tasks[k].label).isotopes)

\* C27: every isotope name that can appear in isotopes_present of a sample
\* generated by the v4 worker (any scenario, including daughters added through
\* include_daughters) has an entry in the master ISOTOPE_INDEX, so pack_labels
\* never falls back to index 0 for an isotope it cannot find and unpack_labels
\* never reports an isotope that was not in the sample.
C27_PresentIsotopesIndexed ==
  \A k \in DOMAIN tasks :
    /\ \A j \in DOMAIN tasks[k].isotopes : tasks[k].isotopes[j] \in DOMAIN ISOTOPE_INDEX
    /\ DecodedIsotopes(k) \subseteq Range(tasks[k].isotopes)

\* the uint16 stored for the isotope at position j of the label of call k
StoredActivity(k, j) ==
  UnpackH(tasks[k].label[1 + tasks[k].label[1] + 2 * j - 1],
          tasks[k].label[1 + tasks[k].label[1] + 2 * j])

\* the nominal activities of a listed isotope: that of the declared source of
\* the name, or else that of a source it is a daughter of
NominalActivities(k, name) ==
  LET declared == {i \in DOMAIN tasks[k].sources : tasks[k].sources[i].isotope_name = name}
      parents == {i \in DOMAIN tasks[k].sources :
                    /\ tasks[k].sources[i].include_daughters
                    /\ name \in Range(get_isotope(tasks[k].sources[i].isotope_name).daughters)}
  IN  {tasks[k].sources[i].activity_bq : i \in (IF declared # {} THEN declared ELSE parents)}

\* C24: in every binary label written by the v4 worker, each listed isotope is
\* stored with its own nominal activity (quantized): a declared source with
\* its configured activity_bq, and a daughter that was included through
\* include_daughters with the activity of its parent source.
C24_NominalActivityStored ==
  \A k \in DOMAIN tasks :
    \A j \in 1..tasks[k].label[1] :
      \E activity \in NominalActivities(k, tasks[k].isotopes[j]) :
        StoredActivity(k, j) = ScaleActivity(activity)
(***************************************************************************)
(* SpecCalc: one call of a detector, physics or decay-chain function on    *)
(* arguments given by the caller.                                          *)
(***************************************************************************)
\* The arguments of one call:
\*   energy_to_channel      every preset; both ends of its configured range in
\*                          steps of a quarter channel, and 661.66 keV
\*   detector_efficiency    every preset; every half keV of the low end, and
\*                          661.66, 1460.83 and 3000 keV
\*   infer_parent_from_daughters   every small set of daughters named by a
\*                          signature and of an isotope no signature names
\*   generate_fallout       a generator of either seed that has given up to
\*                          MaxPos draws; activity ranges of one value (5 Bq,
\*                          10 Bq) and the range 0.1 .. 10 Bq
\*   get_isotope            every name of the registry and names it lacks
\*   get_chain_daughters    every chain root, a chain member that roots no
\*                          chain, an isotope outside every chain and a name
\*                          of no isotope; with and without the parent
\*   normalize_spectrum     every matrix of one or two rows of two bins holding
\*                          0, 1 or 4 counts; the four methods and other names
\*   get_energy_bins        every preset, and DetectorConfig objects of the
\*                          caller with other channel counts and energy ranges,
\*                          with and without the first channel
\* names that are no key of ISOTOPE_DATABASE
UnregisteredNames == {"Xx-999", "cs-137", ""}

\* the presets, and DetectorConfig(...) objects of a caller
CalcDetectors ==
  {RADIACODE_CONFIGS[d] : d \in DOMAIN RADIACODE_CONFIGS}
    \cup {[get_default_config EXCEPT !.name = "custom", !.num_channels = n,
                                     !.skip_first_channel = skip,
                                     !.energy_min_kev = range[1],
                                     !.energy_max_kev = range[2]] :
            n \in {1, 2, 512, 1000, 1024}, skip \in BOOLEAN,
            range \in {<<0, 3000>>, <<20, 3000>>, <<25, 1500>>}}

InitCalc ==
  LET CalibrationEnergies(detector_config) ==
        {detector_config.energy_min_kev * TicksPerKev
           + k * (get_channel_width_kev(detector_config) \div 4) : k \in 0..MaxQuarter}
          \cup {detector_config.energy_max_kev * TicksPerKev
                  - k * (get_channel_width_kev(detector_config) \div 4) : k \in 0..MaxQuarter}
          \cup {1355080}
      EfficiencyEnergies ==
        {k * (TicksPerKev \div 2) : k \in 0..(2 * MaxLowKev)}
          \cup {1355080, 2991780, 3000 * TicksPerKev}
      DetectableNames ==
        UNION {CHAIN_SIGNATURES[k].required_daughters
                 \cup CHAIN_SIGNATURES[k].optional_daughters :
                 k \in DOMAIN CHAIN_SIGNATURES} \cup {"Cs-137"}
      RECURSIVE SetsUpTo(_)
      SetsUpTo(n) ==
        IF n = 0 THEN {{}}
        ELSE {s \cup {x} : s \in SetsUpTo(n - 1), x \in DetectableNames}
               \cup SetsUpTo(n - 1)
  IN
  /\ \/ \E d \in DOMAIN RADIACODE_CONFIGS :
          \E energy \in CalibrationEnergies(RADIACODE_CONFIGS[d]) :
            calc = [pc |-> "ready", fn |-> "energy_to_channel", detector |-> d,
                    energy |-> energy, channel |-> -1, result |-> -1]
     \/ \E d \in DOMAIN RADIACODE_CONFIGS, energy \in EfficiencyEnergies :
          calc = [pc |-> "ready", fn |-> "detector_efficiency", detector |-> d,
                  energy |-> energy, result |-> -1]
     \/ \E detected \in SetsUpTo(MaxDetected) :
          calc = [pc |-> "ready", fn |-> "infer_parent_from_daughters",
                  detected |-> detected, result |-> <<>>]
     \/ \E seed \in {17, 42}, k \in 0..MaxPos,
           range \in {<<500, 500>>, <<1000, 1000>>, <<10, 1000>>} :
          calc = [pc |-> "ready", fn |-> "generate_fallout", seed |-> seed, k |-> k,
                  activity_range |-> range, result |-> <<>>]
     \/ \E name \in DatabaseNames \cup UnregisteredNames :
          calc = [pc |-> "ready", fn |-> "get_isotope", name |-> name,
                  result |-> [raised |-> FALSE, value |-> NoIsotope]]
     \/ \E parent \in DOMAIN DECAY_CHAINS \cup {"Ra-226", "K-40"} \cup UnregisteredNames,
           include_parent \in BOOLEAN :
          calc = [pc |-> "ready", fn |-> "get_chain_daughters", parent |-> parent,
                  include_parent |-> include_parent, result |-> <<>>]
     \/ \E rows \in 1..MaxLen :
          \E spectrum \in [1..rows -> [1..2 -> {0, 1000, 4000}]],
             method \in NormalizationMethods \cup {"minmax", "MAX", ""} :
            calc = [pc |-> "ready", fn |-> "normalize_spectrum", spectrum |-> spectrum,
                    method |-> method, result |-> [raised |-> FALSE, array |-> <<>>]]
     \/ \E detector_config \in CalcDetectors :
          calc = [pc |-> "ready", fn |-> "get_energy_bins",
                  detector_config |-> detector_config, result |-> <<>>]
  /\ codec = CodecIdle
  /\ gen = GenIdle
  /\ batch = BatchIdle
  /\ tasks = NoTasks
  /\ workers = NoWorkers
  /\ files = NoFiles

\* config.py lines 74-84
EnergyToChannel ==
  /\ calc.pc = "ready"
  /\ calc.fn = "energy_to_channel"
  /\ calc' = [calc EXCEPT !.pc = "channel",
                          !.channel = energy_to_channel(RADIACODE_CONFIGS[calc.detector],
                                                        calc.energy)]
  /\ UNCHANGED <<codec, gen, batch, tasks, workers, files>>

\* config.py lines 86-91, on the channel energy_to_channel returned
ChannelToEnergy ==
  /\ calc.pc = "channel"
  /\ calc' = [calc EXCEPT !.pc = "done",
                          !.result = channel_to_energy(RADIACODE_CONFIGS[calc.detector],
                                                       calc.channel)]
  /\ UNCHANGED <<codec, gen, batch, tasks, workers, files>>

\* spectrum_physics.py lines 95-145
DetectorEfficiency ==
  /\ calc.pc = "ready"
  /\ calc.fn = "detector_efficiency"
  /\ calc' = [calc EXCEPT !.pc = "done",
                          !.result = detector_efficiency(calc.energy,
                                                         RADIACODE_CONFIGS[calc.detector])]
  /\ UNCHANGED <<codec, gen, batch, tasks, workers, files>>

\* decay_chains.py lines 241-270
InferParent ==
  /\ calc.pc = "ready"
  /\ calc.fn = "infer_parent_from_daughters"
  /\ calc' = [calc EXCEPT !.pc = "done",
                          !.result = infer_parent_from_daughters(calc.detected)]
  /\ UNCHANGED <<codec, gen, batch, tasks, workers, files>>

\* generate_spectra_v4.py lines 246-258
GenerateFallout ==
  /\ calc.pc = "ready"
  /\ calc.fn = "generate_fallout"
  /\ calc' = [calc EXCEPT !.pc = "done",
                          !.result = generate_fallout(calc.seed, calc.k,
                                                      calc.activity_range).sources]
  /\ UNCHANGED <<codec, gen, batch, tasks, workers, files>>

\* isotope_data.py lines 1340-1342: ISOTOPE_DATABASE.get(name) raises nothing
\* and is None (NoIsotope) for a name that is no key
GetIsotope ==
  /\ calc.pc = "ready"
  /\ calc.fn = "get_isotope"
  /\ calc' = [calc EXCEPT !.pc = "done",
                          !.result = [raised |-> FALSE, value |-> get_isotope(calc.name)]]
  /\ UNCHANGED <<codec, gen, batch, tasks, workers, files>>

\* decay_chains.py lines 220-238
GetChainDaughters ==
  /\ calc.pc = "ready"
  /\ calc.fn = "get_chain_daughters"
  /\ calc' = [calc EXCEPT !.pc = "done",
                          !.result = get_chain_daughters(calc.parent, calc.include_parent)]
  /\ UNCHANGED <<codec, gen, batch, tasks, workers, files>>

\* spectrum_physics.py lines 507-553
NormalizeSpectrum ==
  /\ calc.pc = "ready"
  /\ calc.fn = "normalize_spectrum"
  /\ calc' = [calc EXCEPT !.pc = "done",
                          !.result = normalize_spectrum(calc.spectrum, calc.method)]
  /\ UNCHANGED <<codec, gen, batch, tasks, workers, files>>

\* config.py lines 46-55
GetEnergyBins ==
  /\ calc.pc = "ready"
  /\ calc.fn = "get_energy_bins"
  /\ calc' = [calc EXCEPT !.pc = "done", !.result = get_energy_bins(calc.detector_config)]
  /\ UNCHANGED <<codec, gen, batch, tasks, workers, files>>

NextCalc ==
  \/ EnergyToChannel \/ ChannelToEnergy \/ DetectorEfficiency \/ InferParent
  \/ GenerateFallout \/ GetIsotope \/ GetChainDaughters \/ NormalizeSpectrum
  \/ GetEnergyBins

SpecCalc == InitCalc /\ [][NextCalc]_vars

Done(fn) == calc.pc = "done" /\ calc.fn = fn
Abs(x) == IF x < 0 THEN -x ELSE x

\* C12: for every detector preset and every energy E of its configured range,
\* channel_to_energy(energy_to_channel(E)) differs from E by less than one
\* channel width.
C12_CalibrationRoundTrip ==
  Done("energy_to_channel") =>
    Abs(calc.result - calc.energy) < get_channel_width_kev(RADIACODE_CONFIGS[calc.detector])

\* C13: for every detector preset and every energy E >= 0 the efficiency lies
\* in [0, 1], and it is 0 for every E below the preset's energy_min_kev.
C13_EfficiencyBounds ==
  Done("detector_efficiency") =>
    /\ calc.result >= 0
    /\ calc.result <= Fraction
    /\ calc.energy < RADIACODE_CONFIGS[calc.detector].energy_min_kev * TicksPerKev =>
         calc.result = 0

\* the entries of the returned list that come from signature k
EntriesOf(k) == {i \in DOMAIN calc.result : calc.result[i].signature = CHAIN_SIGNATURES[k].key}
RequiredFound(k) == calc.detected \cap CHAIN_SIGNATURES[k].required_daughters
OptionalFound(k) == calc.detected \cap CHAIN_SIGNATURES[k].optional_daughters
\* |required found| / |required| + 0.1 * |optional found| / |optional|, as the
\* numerator over 10 * |required| * |optional|, before the cap at 1.0
UncappedNum(k) ==
  Cardinality(RequiredFound(k)) * 10 * Cardinality(CHAIN_SIGNATURES[k].optional_daughters)
    + Cardinality(OptionalFound(k)) * Cardinality(CHAIN_SIGNATURES[k].required_daughters)
FullNum(k) ==
  10 * Cardinality(CHAIN_SIGNATURES[k].required_daughters)
     * Cardinality(CHAIN_SIGNATURES[k].optional_daughters)

Registered(i) ==
  CHOOSE k \in DOMAIN CHAIN_SIGNATURES : CHAIN_SIGNATURES[k].key = calc.result[i].signature

\* C15: the returned list is in non-increasing order of confidence, and two
\* entries of equal confidence are in the order their signatures were
\* registered in CHAIN_SIGNATURES.
C15_SortedStable ==
  Done("infer_parent_from_daughters") =>
    \A i, j \in DOMAIN calc.result :
      i < j =>
        /\ ~ConfidenceLess(calc.result[i].confidence, calc.result[j].confidence)
        /\ ~ConfidenceLess(calc.result[j].confidence, calc.result[i].confidence)
             => Registered(i) < Registered(j)

\* a list with two entries of equal confidence behind an entry that was
\* registered after them
C15_Witness ==
  /\ Done("infer_parent_from_daughters")
  /\ \E i, j \in DOMAIN calc.result :
       /\ i < j
       /\ ~ConfidenceLess(calc.result[j].confidence, calc.result[i].confidence)
  /\ \E i, j \in DOMAIN calc.result :
       /\ i < j
       /\ Registered(i) > Registered(j)
       /\ ConfidenceLess(calc.result[j].confidence, calc.result[i].confidence)

\* the Cs-137 activity and the age factor (in 1/1000) the call has drawn
DrawnActivity == Uniform(Rand(calc.seed, calc.k), calc.activity_range[1], calc.activity_range[2])
DrawnAgeFactor == Uniform(Rand(calc.seed, calc.k + 1), 100, 1000)
SourcesNamed(name) == {i \in DOMAIN calc.result : calc.result[i].isotope_name = name}

\* C21: for every drawn Cs-137 activity a and age factor f the sources of the
\* fallout scenario contain Cs-137 at activity a, contain Cs-134 at activity
\* a * f exactly when a * f > 0.5 Bq, and contain no Cs-134 source when
\* a * f <= 0.5 Bq.
C21_FalloutThreshold ==
  Done("generate_fallout") =>
    /\ Cardinality(SourcesNamed("Cs-137")) = 1
    /\ \A i \in SourcesNamed("Cs-137") : calc.result[i].activity_bq = DrawnActivity
    /\ IF DrawnActivity * DrawnAgeFactor > 50 * 1000
       THEN /\ Cardinality(SourcesNamed("Cs-134")) = 1
            /\ \A i \in SourcesNamed("Cs-134") :
                 calc.result[i].activity_bq = (DrawnActivity * DrawnAgeFactor) \div 1000
       ELSE SourcesNamed("Cs-134") = {}

\* a call that drew 5 Bq and the age factor 0.1: the derived activity is the
\* threshold itself and Cs-134 is left out
C21_Witness ==
  /\ Done("generate_fallout")
  /\ DrawnActivity * DrawnAgeFactor = 50 * 1000
  /\ SourcesNamed("Cs-134") = {}
  /\ SourcesNamed("Cs-137") # {}

\* C23: get_isotope(name) returns the registered isotope for every name in the
\* registry and fails with an UnknownIsotope error for every name that is not
\* in the registry.
C23_LookupOrUnknownIsotope ==
  Done("get_isotope") =>
    IF calc.name \in DatabaseNames
    THEN ~calc.result.raised /\ calc.result.value = ISOTOPE_DATABASE[DatabaseKey[calc.name]]
    ELSE calc.result.raised

\* the members of a list other than the parent, in the order of the list
WithoutParent(members) == SelectSeq(members, LAMBDA m : m # calc.parent)

\* C25: get_chain_daughters(parent, include_parent) returns, for a parent that
\* roots a registered decay chain, the chain's members in chain order with the
\* parent itself present exactly when include_parent is true; for a name that
\* roots no registered chain it returns [parent] when include_parent is true
\* and the empty list otherwise.
C25_ChainDaughters ==
  Done("get_chain_daughters") =>
    IF calc.parent \in DOMAIN DECAY_CHAINS
    THEN /\ WithoutParent(calc.result) = WithoutParent(DECAY_CHAINS[calc.parent])
         /\ Cardinality({i \in DOMAIN calc.result : calc.result[i] = calc.parent})
              = (IF calc.include_parent THEN 1 ELSE 0)
         /\ calc.include_parent => calc.result = DECAY_CHAINS[calc.parent]
    ELSE calc.result = (IF calc.include_parent THEN <<calc.parent>> ELSE <<>>)

\* the U-238 chain asked for without its parent: Th-234 comes first
C25_Witness ==
  /\ Done("get_chain_daughters")
  /\ calc.parent = "U-238"
  /\ ~calc.include_parent
  /\ Len(calc.result) = Len(DECAY_CHAINS["U-238"]) - 1
  /\ calc.result[1] = "Th-234"

AllZero(matrix) == \A i \in DOMAIN matrix : \A c \in DOMAIN matrix[i] : matrix[i][c] = 0

\* C26: normalize_spectrum fails with an error for every method name other
\* than max, sum, log and sqrt and returns no array in that case, and for each
\* of those four methods an all-zero input is returned as all zeros without a
\* division by zero.
C26_NormalizeMethodsAndZero ==
  Done("normalize_spectrum") =>
    /\ calc.result.raised <=> calc.method \notin {"max", "sum", "log", "sqrt"}
    /\ calc.result.raised => calc.result.array = <<>>
    /\ ~calc.result.raised /\ AllZero(calc.spectrum) =>
         /\ DOMAIN calc.result.array = DOMAIN calc.spectrum
         /\ \A i \in DOMAIN calc.spectrum : \A c \in DOMAIN calc.spectrum[i] :
              calc.result.array[i][c] = [num |-> 0, den |-> 1]

\* an all-zero matrix of two rows through the log method
C26_Witness ==
  /\ Done("normalize_spectrum")
  /\ calc.method = "log"
  /\ Len(calc.spectrum) = 2
  /\ AllZero(calc.spectrum)
  /\ ~calc.result.raised
  /\ calc.result.array[2][2].num = 0

\* C30: for every detector configuration, get_energy_bins has
\* num_channels - 1 entries when skip_first_channel is set and num_channels
\* entries otherwise, and for every usable channel index c in that range
\* channel_to_energy(c) equals get_energy_bins()[c] and
\* energy_to_channel(get_energy_bins()[c]) equals c.
C30_BinsAgreeWithCalibration ==
  Done("get_energy_bins") =>
    /\ Len(calc.result) = calc.detector_config.num_channels
                            - (IF calc.detector_config.skip_first_channel THEN 1 ELSE 0)
    /\ \A c \in 0..(Len(calc.result) - 1) :
         /\ channel_to_energy(calc.detector_config, c) = calc.result[c + 1]
         /\ energy_to_channel(calc.detector_config, calc.result[c + 1]) = c

\* the bins of a preset (first channel skipped) and of a configuration that
\* keeps the first channel and has a channel width that is no whole tick
C30_Witness ==
  /\ Done("get_energy_bins")
  /\ Len(calc.result) > 1
  /\ \/ calc.detector_config = RADIACODE_CONFIGS["radiacode_103g"]
     \/ /\ ~calc.detector_config.skip_first_channel
        /\ calc.detector_config.num_channels = 1000
====
